---- MODULE Spec2Model ----
(***************************************************************************)
(* Model of the barcoders encoding engine: constructors (validation),      *)
(* checksums and encoders of the symbologies under src/src/sym.            *)
(*                                                                         *)
(* A run constructs one barcode value from raw input and then encodes it.  *)
(* Bytes and chars are their code points; a module sequence is a sequence  *)
(* of 0/1.  A Rust panic (index out of bounds, unwrap/expect failure) is    *)
(* the outcome panic = TRUE.                                               *)
(***************************************************************************)
EXTENDS Integers, Sequences, FiniteSets, TLC

VARIABLES
    pc,        \* "idle", "parsing" (inside Code128::parse), "constructed", "encoded",
               \* "encoded_in_place", "encoded_provided" (the trait's own encode)
    sym,       \* the symbology whose constructor was called
    data,      \* the raw input handed to the constructor
    res,       \* the constructor's Result: [ok, err, val]
    out,       \* the result of encode(): [panic, bits]
    units,     \* Code128::parse local: units collected so far
    char_set,  \* Code128::parse local: active CharacterSet
    carry,     \* Code128::parse local: Option<char>, <<>> is None, <<d>> is Some(d)
    idx,       \* Code128::parse local: 1-based position of the next char
    buf,       \* the caller's buffer as it was handed to encode_in_place
    inplace    \* the result of encode_in_place: [ret, buffer], buffer as left behind

vars == <<pc, sym, data, res, out, units, char_set, carry, idx, buf, inplace>>

(***************************************************************************)
(* Bounds of the model.                                                    *)
(***************************************************************************)
\* Longest Code128 input, in chars.
MaxChars == 4
\* Number of trailing input bytes that range freely over TailBytes.
MaxTail == 2

(***************************************************************************)
(* Generic helpers.                                                        *)
(***************************************************************************)
\* The sequences of ss joined in order (by halves, so that the evaluation of
\* a long ss stays shallow).
RECURSIVE Flatten(_)
Flatten(ss) ==
    IF Len(ss) = 0 THEN <<>>
    ELSE IF Len(ss) = 1 THEN ss[1]
    ELSE LET h == Len(ss) \div 2
         IN  Flatten(SubSeq(ss, 1, h)) \o Flatten(SubSeq(ss, h + 1, Len(ss)))

\* The sum of the numbers of s (by halves, as Flatten).
RECURSIVE SumSeq(_)
SumSeq(s) ==
    IF Len(s) = 0 THEN 0
    ELSE IF Len(s) = 1 THEN s[1]
    ELSE LET h == Len(s) \div 2
         IN  SumSeq(SubSeq(s, 1, h)) + SumSeq(SubSeq(s, h + 1, Len(s)))

Ok(v) == [ok |-> TRUE, err |-> "", val |-> v]
Err(e) == [ok |-> FALSE, err |-> e, val |-> <<>>]
NoResult == [ok |-> FALSE, err |-> "none", val |-> <<>>]

Bits(b) == [panic |-> FALSE, bits |-> b]
Panic == [panic |-> TRUE, bits |-> <<>>]
NoOutput == [panic |-> FALSE, bits |-> <<>>]

IsDigit(c) == c >= 48 /\ c <= 57

(***************************************************************************)
(* Code128 (src/src/sym/code128.rs)                                        *)
(***************************************************************************)
Code128_CHARS ==
  <<
    << << <<32>>, <<32>>, <<48, 48>> >>, <<1, 1, 0, 1, 1, 0, 0, 1, 1, 0, 0>> >>,
    << << <<33>>, <<33>>, <<48, 49>> >>, <<1, 1, 0, 0, 1, 1, 0, 1, 1, 0, 0>> >>,
    << << <<34>>, <<34>>, <<48, 50>> >>, <<1, 1, 0, 0, 1, 1, 0, 0, 1, 1, 0>> >>,
    << << <<35>>, <<35>>, <<48, 51>> >>, <<1, 0, 0, 1, 0, 0, 1, 1, 0, 0, 0>> >>,
    << << <<36>>, <<36>>, <<48, 52>> >>, <<1, 0, 0, 1, 0, 0, 0, 1, 1, 0, 0>> >>,
    << << <<37>>, <<37>>, <<48, 53>> >>, <<1, 0, 0, 0, 1, 0, 0, 1, 1, 0, 0>> >>,
    << << <<38>>, <<38>>, <<48, 54>> >>, <<1, 0, 0, 1, 1, 0, 0, 1, 0, 0, 0>> >>,
    << << <<39>>, <<39>>, <<48, 55>> >>, <<1, 0, 0, 1, 1, 0, 0, 0, 1, 0, 0>> >>,
    << << <<40>>, <<40>>, <<48, 56>> >>, <<1, 0, 0, 0, 1, 1, 0, 0, 1, 0, 0>> >>,
    << << <<41>>, <<41>>, <<48, 57>> >>, <<1, 1, 0, 0, 1, 0, 0, 1, 0, 0, 0>> >>,
    << << <<42>>, <<42>>, <<49, 48>> >>, <<1, 1, 0, 0, 1, 0, 0, 0, 1, 0, 0>> >>,
    << << <<43>>, <<43>>, <<49, 49>> >>, <<1, 1, 0, 0, 0, 1, 0, 0, 1, 0, 0>> >>,
    << << <<44>>, <<44>>, <<49, 50>> >>, <<1, 0, 1, 1, 0, 0, 1, 1, 1, 0, 0>> >>,
    << << <<45>>, <<45>>, <<49, 51>> >>, <<1, 0, 0, 1, 1, 0, 1, 1, 1, 0, 0>> >>,
    << << <<46>>, <<46>>, <<49, 52>> >>, <<1, 0, 0, 1, 1, 0, 0, 1, 1, 1, 0>> >>,
    << << <<47>>, <<47>>, <<49, 53>> >>, <<1, 0, 1, 1, 1, 0, 0, 1, 1, 0, 0>> >>,
    << << <<48>>, <<48>>, <<49, 54>> >>, <<1, 0, 0, 1, 1, 1, 0, 1, 1, 0, 0>> >>,
    << << <<49>>, <<49>>, <<49, 55>> >>, <<1, 0, 0, 1, 1, 1, 0, 0, 1, 1, 0>> >>,
    << << <<50>>, <<50>>, <<49, 56>> >>, <<1, 1, 0, 0, 1, 1, 1, 0, 0, 1, 0>> >>,
    << << <<51>>, <<51>>, <<49, 57>> >>, <<1, 1, 0, 0, 1, 0, 1, 1, 1, 0, 0>> >>,
    << << <<52>>, <<52>>, <<50, 48>> >>, <<1, 1, 0, 0, 1, 0, 0, 1, 1, 1, 0>> >>,
    << << <<53>>, <<53>>, <<50, 49>> >>, <<1, 1, 0, 1, 1, 1, 0, 0, 1, 0, 0>> >>,
    << << <<54>>, <<54>>, <<50, 50>> >>, <<1, 1, 0, 0, 1, 1, 1, 0, 1, 0, 0>> >>,
    << << <<55>>, <<55>>, <<50, 51>> >>, <<1, 1, 1, 0, 1, 1, 0, 1, 1, 1, 0>> >>,
    << << <<56>>, <<56>>, <<50, 52>> >>, <<1, 1, 1, 0, 1, 0, 0, 1, 1, 0, 0>> >>,
    << << <<57>>, <<57>>, <<50, 53>> >>, <<1, 1, 1, 0, 0, 1, 0, 1, 1, 0, 0>> >>,
    << << <<58>>, <<58>>, <<50, 54>> >>, <<1, 1, 1, 0, 0, 1, 0, 0, 1, 1, 0>> >>,
    << << <<59>>, <<59>>, <<50, 55>> >>, <<1, 1, 1, 0, 1, 1, 0, 0, 1, 0, 0>> >>,
    << << <<60>>, <<60>>, <<50, 56>> >>, <<1, 1, 1, 0, 0, 1, 1, 0, 1, 0, 0>> >>,
    << << <<61>>, <<61>>, <<50, 57>> >>, <<1, 1, 1, 0, 0, 1, 1, 0, 0, 1, 0>> >>,
    << << <<62>>, <<62>>, <<51, 48>> >>, <<1, 1, 0, 1, 1, 0, 1, 1, 0, 0, 0>> >>,
    << << <<63>>, <<63>>, <<51, 49>> >>, <<1, 1, 0, 1, 1, 0, 0, 0, 1, 1, 0>> >>,
    << << <<64>>, <<64>>, <<51, 50>> >>, <<1, 1, 0, 0, 0, 1, 1, 0, 1, 1, 0>> >>,
    << << <<65>>, <<65>>, <<51, 51>> >>, <<1, 0, 1, 0, 0, 0, 1, 1, 0, 0, 0>> >>,
    << << <<66>>, <<66>>, <<51, 52>> >>, <<1, 0, 0, 0, 1, 0, 1, 1, 0, 0, 0>> >>,
    << << <<67>>, <<67>>, <<51, 53>> >>, <<1, 0, 0, 0, 1, 0, 0, 0, 1, 1, 0>> >>,
    << << <<68>>, <<68>>, <<51, 54>> >>, <<1, 0, 1, 1, 0, 0, 0, 1, 0, 0, 0>> >>,
    << << <<69>>, <<69>>, <<51, 55>> >>, <<1, 0, 0, 0, 1, 1, 0, 1, 0, 0, 0>> >>,
    << << <<70>>, <<70>>, <<51, 56>> >>, <<1, 0, 0, 0, 1, 1, 0, 0, 0, 1, 0>> >>,
    << << <<71>>, <<71>>, <<51, 57>> >>, <<1, 1, 0, 1, 0, 0, 0, 1, 0, 0, 0>> >>,
    << << <<72>>, <<72>>, <<52, 48>> >>, <<1, 1, 0, 0, 0, 1, 0, 1, 0, 0, 0>> >>,
    << << <<73>>, <<73>>, <<52, 49>> >>, <<1, 1, 0, 0, 0, 1, 0, 0, 0, 1, 0>> >>,
    << << <<74>>, <<74>>, <<52, 50>> >>, <<1, 0, 1, 1, 0, 1, 1, 1, 0, 0, 0>> >>,
    << << <<75>>, <<75>>, <<52, 51>> >>, <<1, 0, 1, 1, 0, 0, 0, 1, 1, 1, 0>> >>,
    << << <<76>>, <<76>>, <<52, 52>> >>, <<1, 0, 0, 0, 1, 1, 0, 1, 1, 1, 0>> >>,
    << << <<77>>, <<77>>, <<52, 53>> >>, <<1, 0, 1, 1, 1, 0, 1, 1, 0, 0, 0>> >>,
    << << <<78>>, <<78>>, <<52, 54>> >>, <<1, 0, 1, 1, 1, 0, 0, 0, 1, 1, 0>> >>,
    << << <<79>>, <<79>>, <<52, 55>> >>, <<1, 0, 0, 0, 1, 1, 1, 0, 1, 1, 0>> >>,
    << << <<80>>, <<80>>, <<52, 56>> >>, <<1, 1, 1, 0, 1, 1, 1, 0, 1, 1, 0>> >>,
    << << <<81>>, <<81>>, <<52, 57>> >>, <<1, 1, 0, 1, 0, 0, 0, 1, 1, 1, 0>> >>,
    << << <<82>>, <<82>>, <<53, 48>> >>, <<1, 1, 0, 0, 0, 1, 0, 1, 1, 1, 0>> >>,
    << << <<83>>, <<83>>, <<53, 49>> >>, <<1, 1, 0, 1, 1, 1, 0, 1, 0, 0, 0>> >>,
    << << <<84>>, <<84>>, <<53, 50>> >>, <<1, 1, 0, 1, 1, 1, 0, 0, 0, 1, 0>> >>,
    << << <<85>>, <<85>>, <<53, 51>> >>, <<1, 1, 0, 1, 1, 1, 0, 1, 1, 1, 0>> >>,
    << << <<86>>, <<86>>, <<53, 52>> >>, <<1, 1, 1, 0, 1, 0, 1, 1, 0, 0, 0>> >>,
    << << <<87>>, <<87>>, <<53, 53>> >>, <<1, 1, 1, 0, 1, 0, 0, 0, 1, 1, 0>> >>,
    << << <<88>>, <<88>>, <<53, 54>> >>, <<1, 1, 1, 0, 0, 0, 1, 0, 1, 1, 0>> >>,
    << << <<89>>, <<89>>, <<53, 55>> >>, <<1, 1, 1, 0, 1, 1, 0, 1, 0, 0, 0>> >>,
    << << <<90>>, <<90>>, <<53, 56>> >>, <<1, 1, 1, 0, 1, 1, 0, 0, 0, 1, 0>> >>,
    << << <<91>>, <<91>>, <<53, 57>> >>, <<1, 1, 1, 0, 0, 0, 1, 1, 0, 1, 0>> >>,
    << << <<92>>, <<92>>, <<54, 48>> >>, <<1, 1, 1, 0, 1, 1, 1, 1, 0, 1, 0>> >>,
    << << <<93>>, <<93>>, <<54, 49>> >>, <<1, 1, 0, 0, 1, 0, 0, 0, 0, 1, 0>> >>,
    << << <<94>>, <<94>>, <<54, 50>> >>, <<1, 1, 1, 1, 0, 0, 0, 1, 0, 1, 0>> >>,
    << << <<95>>, <<95>>, <<54, 51>> >>, <<1, 0, 1, 0, 0, 1, 1, 0, 0, 0, 0>> >>,
    << << <<0>>, <<96>>, <<54, 52>> >>, <<1, 0, 1, 0, 0, 0, 0, 1, 1, 0, 0>> >>,
    << << <<1>>, <<97>>, <<54, 53>> >>, <<1, 0, 0, 1, 0, 1, 1, 0, 0, 0, 0>> >>,
    << << <<2>>, <<98>>, <<54, 54>> >>, <<1, 0, 0, 1, 0, 0, 0, 0, 1, 1, 0>> >>,
    << << <<3>>, <<99>>, <<54, 55>> >>, <<1, 0, 0, 0, 0, 1, 0, 1, 1, 0, 0>> >>,
    << << <<4>>, <<100>>, <<54, 56>> >>, <<1, 0, 0, 0, 0, 1, 0, 0, 1, 1, 0>> >>,
    << << <<5>>, <<101>>, <<54, 57>> >>, <<1, 0, 1, 1, 0, 0, 1, 0, 0, 0, 0>> >>,
    << << <<6>>, <<102>>, <<55, 48>> >>, <<1, 0, 1, 1, 0, 0, 0, 0, 1, 0, 0>> >>,
    << << <<7>>, <<103>>, <<55, 49>> >>, <<1, 0, 0, 1, 1, 0, 1, 0, 0, 0, 0>> >>,
    << << <<8>>, <<104>>, <<55, 50>> >>, <<1, 0, 0, 1, 1, 0, 0, 0, 0, 1, 0>> >>,
    << << <<9>>, <<105>>, <<55, 51>> >>, <<1, 0, 0, 0, 0, 1, 1, 0, 1, 0, 0>> >>,
    << << <<10>>, <<106>>, <<55, 52>> >>, <<1, 0, 0, 0, 0, 1, 1, 0, 0, 1, 0>> >>,
    << << <<11>>, <<107>>, <<55, 53>> >>, <<1, 1, 0, 0, 0, 0, 1, 0, 0, 1, 0>> >>,
    << << <<12>>, <<108>>, <<55, 54>> >>, <<1, 1, 0, 0, 1, 0, 1, 0, 0, 0, 0>> >>,
    << << <<13>>, <<109>>, <<55, 55>> >>, <<1, 1, 1, 1, 0, 1, 1, 1, 0, 1, 0>> >>,
    << << <<14>>, <<110>>, <<55, 56>> >>, <<1, 1, 0, 0, 0, 0, 1, 0, 1, 0, 0>> >>,
    << << <<15>>, <<111>>, <<55, 57>> >>, <<1, 0, 0, 0, 1, 1, 1, 1, 0, 1, 0>> >>,
    << << <<16>>, <<112>>, <<56, 48>> >>, <<1, 0, 1, 0, 0, 1, 1, 1, 1, 0, 0>> >>,
    << << <<17>>, <<113>>, <<56, 49>> >>, <<1, 0, 0, 1, 0, 1, 1, 1, 1, 0, 0>> >>,
    << << <<18>>, <<114>>, <<56, 50>> >>, <<1, 0, 0, 1, 0, 0, 1, 1, 1, 1, 0>> >>,
    << << <<19>>, <<115>>, <<56, 51>> >>, <<1, 0, 1, 1, 1, 1, 0, 0, 1, 0, 0>> >>,
    << << <<20>>, <<116>>, <<56, 52>> >>, <<1, 0, 0, 1, 1, 1, 1, 0, 1, 0, 0>> >>,
    << << <<21>>, <<117>>, <<56, 53>> >>, <<1, 0, 0, 1, 1, 1, 1, 0, 0, 1, 0>> >>,
    << << <<22>>, <<118>>, <<56, 54>> >>, <<1, 1, 1, 1, 0, 1, 0, 0, 1, 0, 0>> >>,
    << << <<23>>, <<119>>, <<56, 55>> >>, <<1, 1, 1, 1, 0, 0, 1, 0, 1, 0, 0>> >>,
    << << <<24>>, <<120>>, <<56, 56>> >>, <<1, 1, 1, 1, 0, 0, 1, 0, 0, 1, 0>> >>,
    << << <<25>>, <<121>>, <<56, 57>> >>, <<1, 1, 0, 1, 1, 0, 1, 1, 1, 1, 0>> >>,
    << << <<26>>, <<122>>, <<57, 48>> >>, <<1, 1, 0, 1, 1, 1, 1, 0, 1, 1, 0>> >>,
    << << <<27>>, <<123>>, <<57, 49>> >>, <<1, 1, 1, 1, 0, 1, 1, 0, 1, 1, 0>> >>,
    << << <<28>>, <<124>>, <<57, 50>> >>, <<1, 1, 1, 1, 0, 1, 1, 0, 1, 1, 0>> >>,
    << << <<29>>, <<125>>, <<57, 51>> >>, <<1, 0, 1, 0, 0, 0, 1, 1, 1, 1, 0>> >>,
    << << <<30>>, <<126>>, <<57, 52>> >>, <<1, 0, 0, 0, 1, 0, 1, 1, 1, 1, 0>> >>,
    << << <<31>>, <<247>>, <<57, 53>> >>, <<1, 0, 1, 1, 1, 1, 0, 1, 0, 0, 0>> >>,
    << << <<379>>, <<379>>, <<57, 54>> >>, <<1, 0, 1, 1, 1, 1, 0, 0, 0, 1, 0>> >>,
    << << <<378>>, <<378>>, <<57, 55>> >>, <<1, 1, 1, 1, 0, 1, 0, 1, 0, 0, 0>> >>,
    << << <<381>>, <<381>>, <<57, 56>> >>, <<1, 1, 1, 1, 0, 1, 0, 0, 0, 1, 0>> >>,
    << << <<262>>, <<262>>, <<57, 57>> >>, <<1, 0, 1, 1, 1, 0, 1, 1, 1, 1, 0>> >>,
    << << <<385>>, <<380>>, <<385>> >>, <<1, 0, 1, 1, 1, 1, 0, 1, 1, 1, 0>> >>,
    << << <<380>>, <<192>>, <<192>> >>, <<1, 1, 1, 0, 1, 0, 1, 1, 1, 1, 0>> >>,
    << << <<377>>, <<377>>, <<377>> >>, <<1, 1, 1, 1, 0, 1, 0, 1, 1, 1, 0>> >>,
    << << <<83, 84, 65, 82, 84, 45, 192>>, <<83, 84, 65, 82, 84, 45, 192>>, <<83, 84, 65, 82, 84, 45, 192>> >>, <<1, 1, 0, 1, 0, 0, 0, 0, 1, 0, 0>> >>,
    << << <<83, 84, 65, 82, 84, 45, 385>>, <<83, 84, 65, 82, 84, 45, 385>>, <<83, 84, 65, 82, 84, 45, 385>> >>, <<1, 1, 0, 1, 0, 0, 1, 0, 0, 0, 0>> >>,
    << << <<83, 84, 65, 82, 84, 45, 262>>, <<83, 84, 65, 82, 84, 45, 262>>, <<83, 84, 65, 82, 84, 45, 262>> >>, <<1, 1, 0, 1, 0, 0, 1, 1, 1, 0, 0>> >>
  >>

\* Stop sequence.
STOP == <<1, 1, 0, 0, 0, 1, 1, 1, 0, 1, 0>>

\* Termination sequence.
TERM == <<1, 1>>

\* The three set-switch chars: À (U+00C0), Ɓ (U+0181), Ć (U+0106).
SwitchChars == {192, 385, 262}

\* Number of bytes of the UTF-8 encoding of one char (str::len counts bytes).
Utf8Len(c) == IF c < 128 THEN 1 ELSE IF c < 2048 THEN 2 ELSE IF c < 65536 THEN 3 ELSE 4

StrLen(s) == SumSeq([i \in 1..Len(s) |-> Utf8Len(s[i])])

\* Unit::index
Unit_index(u) == u.n

\* CharacterSet::from_char
CharacterSet_from_char(c) ==
    CASE c = 192 -> [ok |-> TRUE, err |-> "", set |-> "A"]
      [] c = 385 -> [ok |-> TRUE, err |-> "", set |-> "B"]
      [] c = 262 -> [ok |-> TRUE, err |-> "", set |-> "C"]
      [] OTHER -> [ok |-> FALSE, err |-> "Character", set |-> "None"]

\* CharacterSet::unit
CharacterSet_unit(cs, n) ==
    IF cs = "None"
    THEN [ok |-> FALSE, err |-> "Character", unit |-> [set |-> "None", n |-> 0]]
    ELSE [ok |-> TRUE, err |-> "", unit |-> [set |-> cs, n |-> n]]

\* CharacterSet::index
CharacterSet_index(cs) ==
    CASE cs = "A" -> [ok |-> TRUE, p |-> 0]
      [] cs = "B" -> [ok |-> TRUE, p |-> 1]
      [] cs = "C" -> [ok |-> TRUE, p |-> 2]
      [] OTHER -> [ok |-> FALSE, p |-> 0]

\* lookup searching the columns of all three sets
CharacterSet_lookup_AnyColumn(cs, s) ==
    LET ix == CharacterSet_index(cs)
        hits == {i \in 1..Len(Code128_CHARS) : \E c \in 1..3 : Code128_CHARS[i][1][c] = s}
    IN  IF ~ix.ok
        THEN [ok |-> FALSE, err |-> "Character", unit |-> [set |-> "None", n |-> 0]]
        ELSE IF hits = {}
        THEN [ok |-> FALSE, err |-> "Character", unit |-> [set |-> "None", n |-> 0]]
        ELSE CharacterSet_unit(cs, (CHOOSE i \in hits : \A j \in hits : i <= j) - 1)

\* CharacterSet::lookup: the first row whose column for this set holds s.
CharacterSet_lookup(cs, s) ==
    LET ix == CharacterSet_index(cs)
        hits == {i \in 1..Len(Code128_CHARS) : Code128_CHARS[i][1][ix.p + 1] = s}
    IN  IF ~ix.ok
        THEN [ok |-> FALSE, err |-> "Character", unit |-> [set |-> "None", n |-> 0]]
        ELSE IF hits = {}
        THEN [ok |-> FALSE, err |-> "Character", unit |-> [set |-> "None", n |-> 0]]
        ELSE CharacterSet_unit(cs, (CHOOSE i \in hits : \A j \in hits : i <= j) - 1)

\* "START-" as chars, the prefix of format!("START-{}", ch)
StartPrefix == <<83, 84, 65, 82, 84, 45>>

\* The chars Code128 inputs are drawn from: the three set switches, two
\* digits, 'a' (set B only), FNC1 (all three sets) and U+263A (no set).
Code128Alphabet == {192, 385, 262, 49, 50, 97, 377, 9786}

\* Inputs of the repository's tests (src/src/sym/code128.rs, tests):
\* "ÀHELLO", "ÀXYĆ2199", "ƁxyZÀ199!*1"
Code128TestInputs ==
    { <<192, 72, 69, 76, 76, 79>>,
      <<192, 88, 89, 262, 50, 49, 57, 57>>,
      <<385, 120, 121, 90, 192, 49, 57, 57, 33, 42, 49>> }

\* Set-B inputs holding '{' and '|', the characters of rows 91 and 92 of CHARS.
Code128BraceInputs == { <<385, 123>>, <<385, 124>>, <<385, 123, 124>> }

Code128Inputs ==
    UNION {[1..n -> Code128Alphabet] : n \in 0..MaxChars}
        \cup Code128TestInputs \cup Code128BraceInputs

InitialCharSetA == "A"

\* let mut char_set = CharacterSet::None
InitialCharSet == "None"

\* Code128::new up to the call of parse: the length check and parse's locals.
Code128_new ==
    /\ pc = "idle"
    /\ \E d \in Code128Inputs :
         /\ data' = d
         /\ sym' = "Code128"
         /\ IF StrLen(d) < 2
            THEN /\ res' = Err("Length")
                 /\ pc' = "constructed"
                 /\ UNCHANGED <<units, char_set, carry, idx>>
            ELSE /\ pc' = "parsing"
                 /\ units' = <<>>
                 /\ char_set' = InitialCharSet
                 /\ carry' = <<>>
                 /\ idx' = 1
                 /\ UNCHANGED res
    /\ UNCHANGED <<out, buf, inplace>>

\* parse returns Err(e) out of the loop (the ? operator or an explicit return).
ParseFail(e) ==
    /\ res' = Err(e)
    /\ pc' = "constructed"

\* Arm 1: 'À' | 'Ɓ' | 'Ć' if units.is_empty()
Parse_start ==
    /\ pc = "parsing" /\ idx <= Len(data)
    /\ data[idx] \in SwitchChars /\ units = <<>>
    /\ LET ch == data[idx]
           cs == CharacterSet_from_char(ch)
           u  == CharacterSet_lookup(cs.set, StartPrefix \o <<ch>>)
       IN  IF ~cs.ok
           THEN ParseFail(cs.err) /\ UNCHANGED <<units, char_set, carry, idx>>
           ELSE IF ~u.ok
           THEN /\ ParseFail(u.err)
                /\ char_set' = cs.set
                /\ UNCHANGED <<units, carry, idx>>
           ELSE /\ char_set' = cs.set
                /\ units' = Append(units, u.unit)
                /\ idx' = idx + 1
                /\ UNCHANGED <<pc, res, carry>>
    /\ UNCHANGED <<sym, data, out, buf, inplace>>

\* Arm 2 looking the unit up in the set the character selects
Parse_switch_NewSetFirst ==
    /\ pc = "parsing" /\ idx <= Len(data)
    /\ data[idx] \in SwitchChars /\ units # <<>>
    /\ LET ch == data[idx]
           u  == CharacterSet_lookup(CharacterSet_from_char(ch).set, <<ch>>)
           cs == CharacterSet_from_char(ch)
       IN  IF char_set = "C" /\ carry # <<>>
           THEN ParseFail("Character") /\ UNCHANGED <<units, char_set, carry, idx>>
           ELSE IF ~u.ok
           THEN ParseFail(u.err) /\ UNCHANGED <<units, char_set, carry, idx>>
           ELSE IF ~cs.ok
           THEN /\ ParseFail(cs.err)
                /\ units' = Append(units, u.unit)
                /\ UNCHANGED <<char_set, carry, idx>>
           ELSE /\ units' = Append(units, u.unit)
                /\ char_set' = cs.set
                /\ idx' = idx + 1
                /\ UNCHANGED <<pc, res, carry>>
    /\ UNCHANGED <<sym, data, out, buf, inplace>>

\* Arm 2 without the test for a pending carry
Parse_switch_NoCarryTest ==
    /\ pc = "parsing" /\ idx <= Len(data)
    /\ data[idx] \in SwitchChars /\ units # <<>>
    /\ LET ch == data[idx]
           u  == CharacterSet_lookup(char_set, <<ch>>)
           cs == CharacterSet_from_char(ch)
       IN  IF FALSE
           THEN ParseFail("Character") /\ UNCHANGED <<units, char_set, carry, idx>>
           ELSE IF ~u.ok
           THEN ParseFail(u.err) /\ UNCHANGED <<units, char_set, carry, idx>>
           ELSE IF ~cs.ok
           THEN /\ ParseFail(cs.err)
                /\ units' = Append(units, u.unit)
                /\ UNCHANGED <<char_set, carry, idx>>
           ELSE /\ units' = Append(units, u.unit)
                /\ char_set' = cs.set
                /\ idx' = idx + 1
                /\ UNCHANGED <<pc, res, carry>>
    /\ UNCHANGED <<sym, data, out, buf, inplace>>

\* Arm 2: 'À' | 'Ɓ' | 'Ć' after the first unit
Parse_switch ==
    /\ pc = "parsing" /\ idx <= Len(data)
    /\ data[idx] \in SwitchChars /\ units # <<>>
    /\ LET ch == data[idx]
           u  == CharacterSet_lookup(char_set, <<ch>>)
           cs == CharacterSet_from_char(ch)
       IN  IF char_set = "C" /\ carry # <<>>
           THEN ParseFail("Character") /\ UNCHANGED <<units, char_set, carry, idx>>
           ELSE IF ~u.ok
           THEN ParseFail(u.err) /\ UNCHANGED <<units, char_set, carry, idx>>
           ELSE IF ~cs.ok
           THEN /\ ParseFail(cs.err)
                /\ units' = Append(units, u.unit)
                /\ UNCHANGED <<char_set, carry, idx>>
           ELSE /\ units' = Append(units, u.unit)
                /\ char_set' = cs.set
                /\ idx' = idx + 1
                /\ UNCHANGED <<pc, res, carry>>
    /\ UNCHANGED <<sym, data, out, buf, inplace>>

\* Arm 3: d if d.is_digit(10) && char_set == CharacterSet::C
Parse_digit ==
    /\ pc = "parsing" /\ idx <= Len(data)
    /\ data[idx] \notin SwitchChars
    /\ IsDigit(data[idx]) /\ char_set = "C"
    /\ LET d == data[idx]
           u == CharacterSet_lookup(char_set, carry \o <<d>>)
       IN  IF carry = <<>>
           THEN /\ carry' = <<d>>
                /\ idx' = idx + 1
                /\ UNCHANGED <<pc, res, units>>
           ELSE IF ~u.ok
           THEN ParseFail(u.err) /\ UNCHANGED <<units, carry, idx>>
           ELSE /\ units' = Append(units, u.unit)
                /\ carry' = <<>>
                /\ idx' = idx + 1
                /\ UNCHANGED <<pc, res>>
    /\ UNCHANGED <<sym, data, out, buf, inplace, char_set>>

\* Arm 4: _
Parse_other ==
    /\ pc = "parsing" /\ idx <= Len(data)
    /\ data[idx] \notin SwitchChars
    /\ ~(IsDigit(data[idx]) /\ char_set = "C")
    /\ LET u == CharacterSet_lookup(char_set, <<data[idx]>>)
       IN  IF ~u.ok
           THEN ParseFail(u.err) /\ UNCHANGED <<units, idx>>
           ELSE /\ units' = Append(units, u.unit)
                /\ idx' = idx + 1
                /\ UNCHANGED <<pc, res>>
    /\ UNCHANGED <<sym, data, out, buf, inplace, char_set, carry>>

ParseEndIgnoreCarry(c, us) == Ok(us)

\* The final match on carry, after the loop.
ParseEnd(c, us) == IF c # <<>> THEN Err("Character") ELSE Ok(us)

\* End of input: parse returns, and new wraps the units into Code128.
Parse_end ==
    /\ pc = "parsing" /\ idx > Len(data)
    /\ res' = ParseEnd(carry, units)
    /\ pc' = "constructed"
    /\ UNCHANGED <<sym, data, out, buf, inplace, units, char_set, carry, idx>>

Code128_weight_OneBased(i) == i + 1

\* cmp::max(1, i): the checksum weight of the unit at 0-based position i.
Code128_weight(i) == IF i < 1 THEN 1 ELSE i

\* Code128::checksum_value (the i32 sum cannot overflow at these lengths)
Code128_checksum_value(us) ==
    SumSeq([k \in 1..Len(us) |-> Unit_index(us[k]) * Code128_weight(k - 1)]) % 103

\* Code128::unit_encoding: CHARS[c.index()].1, an index past the table panics.
Code128_unit_encoding(u) ==
    IF Unit_index(u) < Len(Code128_CHARS)
    THEN Bits(Code128_CHARS[Unit_index(u) + 1][2])
    ELSE Panic

\* Code128::checksum_encoding
Code128_checksum_encoding(us) ==
    Code128_unit_encoding([set |-> "A", n |-> Code128_checksum_value(us)])

\* helpers::join_slices: flatten in order.
join_slices(slices) == Flatten(slices)

\* helpers::join_iters, the iterator form of join_slices that payload calls.
\* Its definition is not among the sources; like join_slices, join_vecs and
\* join_arrays it flattens in order, which is what the 90-module vector of
\* tests::code128_encode and the 95-module UPC-A layout require.
join_iters(slices) == Flatten(slices)

Code128_payload_Separated(us) ==
    LET encs == [k \in 1..Len(us) |-> Code128_unit_encoding(us[k])]
    IN  IF \E k \in 1..Len(us) : encs[k].panic
        THEN Panic
        ELSE Bits(join_iters([k \in 1..Len(us) |-> encs[k].bits \o <<0>>]))

\* Code128::payload
Code128_payload(us) ==
    LET encs == [k \in 1..Len(us) |-> Code128_unit_encoding(us[k])]
    IN  IF \E k \in 1..Len(us) : encs[k].panic
        THEN Panic
        ELSE Bits(join_iters([k \in 1..Len(us) |-> encs[k].bits]))

\* Code128::encode
Code128_encode(us) ==
    LET p == Code128_payload(us)
        c == Code128_checksum_encoding(us)
    IN  IF p.panic \/ c.panic
        THEN Panic
        ELSE Bits(join_slices(<<p.bits, c.bits, STOP, TERM>>))

(***************************************************************************)
(* Inputs of the byte-oriented constructors.                               *)
(***************************************************************************)
\* The digits of the reference vector "750103131130", as bytes.
RefBytes == <<55, 53, 48, 49, 48, 51, 49, 51, 49, 49, 51, 48>>

\* '/', '0'..'9', ':'  (the digits and their two neighbours)
TailBytes == 47..58

\* '0', '7', ':'
HeadBytes == {48, 55, 58}

\* Inputs of length n: the first byte from heads, the last MaxTail bytes from
\* tails, the reference digits (repeated) in between.
InputsOfLen(n, heads, tails) ==
    { [i \in 1..n |->
          IF i > n - MaxTail THEN t[i - (n - MaxTail)]
          ELSE IF i = 1 THEN h
          ELSE RefBytes[((i - 1) % Len(RefBytes)) + 1]]
      : h \in heads, t \in [1..MaxTail -> tails] }

InputsOfLens(lens, heads, tails) == UNION {InputsOfLen(n, heads, tails) : n \in lens}

\* '0'..'9'
DigitChars == 48..57

\* c.to_digit(10) of a validated char
ToDigits(s) == [i \in 1..Len(s) |-> s[i] - 48]

\* The elements of s at 0-based indices i with i % 2 = r, summed.
SumAt(s, r) == SumSeq([i \in 1..Len(s) |-> IF (i - 1) % 2 = r THEN s[i] ELSE 0])

\* s[a..b] of Rust (0-based, b excluded)
Slice(s, a, b) == SubSeq(s, a + 1, b)

(***************************************************************************)
(* The Parse trait (src/src/sym/mod.rs)                                    *)
(***************************************************************************)
\* Parse::parse, for the range valid_len = lo..hi and the set valid_chars
\* (data.len() as u32 changes no length below 2^32)
Parse_parse(d, lo, hi, valid_chars) ==
    LET data_len == Len(d)
    IN  IF data_len < lo \/ data_len > hi
        THEN Err("Length")
        ELSE IF \E i \in 1..Len(d) : d[i] \notin valid_chars
        THEN Err("Character")
        ELSE Ok(d)

(***************************************************************************)
(* helpers (src/src/sym/helpers.rs)                                        *)
(***************************************************************************)
\* modulo_10_checksum: odds and evens are u8; overflow tells whether some
\* intermediate value left the u8 range (a panic in a build with overflow
\* checks, a wrapped value otherwise).
modulo_10_checksum(d, even_start) ==
    LET odds   == SumAt(d, 1)
        evens  == SumAt(d, 0)
        odds2  == IF even_start THEN odds * 3 ELSE odds
        evens2 == IF even_start THEN evens ELSE evens * 3
        sum    == (odds2 % 256) + (evens2 % 256)
        m      == 10 - ((sum % 256) % 10)
    IN  [overflow |-> odds > 255 \/ evens > 255 \/ odds2 > 255 \/ evens2 > 255 \/ sum > 255,
         v |-> IF m = 10 THEN 0 ELSE m]

(***************************************************************************)
(* EAN-13 (src/src/sym/ean13.rs)                                           *)
(***************************************************************************)
\* EAN13_ENCODINGS: left side A (odd parity), left side B (even parity), right side.
EAN13_ENCODINGS ==
  <<
    << <<0, 0, 0, 1, 1, 0, 1>>,
       <<0, 0, 1, 1, 0, 0, 1>>,
       <<0, 0, 1, 0, 0, 1, 1>>,
       <<0, 1, 1, 1, 1, 0, 1>>,
       <<0, 1, 0, 0, 0, 1, 1>>,
       <<0, 1, 1, 0, 0, 0, 1>>,
       <<0, 1, 0, 1, 1, 1, 1>>,
       <<0, 1, 1, 1, 0, 1, 1>>,
       <<0, 1, 1, 0, 1, 1, 1>>,
       <<0, 0, 0, 1, 0, 1, 1>> >>,
    << <<0, 1, 0, 0, 1, 1, 1>>,
       <<0, 1, 1, 0, 0, 1, 1>>,
       <<0, 0, 1, 1, 0, 1, 1>>,
       <<0, 1, 0, 0, 0, 0, 1>>,
       <<0, 0, 1, 1, 1, 0, 1>>,
       <<0, 1, 1, 1, 0, 0, 1>>,
       <<0, 0, 0, 0, 1, 0, 1>>,
       <<0, 0, 1, 0, 0, 0, 1>>,
       <<0, 0, 0, 1, 0, 0, 1>>,
       <<0, 0, 1, 0, 1, 1, 1>> >>,
    << <<1, 1, 1, 0, 0, 1, 0>>,
       <<1, 1, 0, 0, 1, 1, 0>>,
       <<1, 1, 0, 1, 1, 0, 0>>,
       <<1, 0, 0, 0, 0, 1, 0>>,
       <<1, 0, 1, 1, 1, 0, 0>>,
       <<1, 0, 0, 1, 1, 1, 0>>,
       <<1, 0, 1, 0, 0, 0, 0>>,
       <<1, 0, 0, 0, 1, 0, 0>>,
       <<1, 0, 0, 1, 0, 0, 0>>,
       <<1, 1, 1, 0, 1, 0, 0>> >>
  >>

\* Parity (odd/even) of the left-side digits, by the first digit.
EAN13_PARITY ==
  << <<0, 0, 0, 0, 0>>, <<0, 1, 0, 1, 1>>, <<0, 1, 1, 0, 1>>, <<0, 1, 1, 1, 0>>,
     <<1, 0, 0, 1, 1>>, <<1, 1, 0, 0, 1>>, <<1, 1, 1, 0, 0>>, <<1, 0, 1, 0, 1>>,
     <<1, 0, 1, 1, 0>>, <<1, 1, 0, 1, 0>> >>

\* Left, middle, right.
EAN13_GUARDS == << <<1, 0, 1>>, <<0, 1, 0, 1, 0>>, <<1, 0, 1>> >>

\* EAN13::new: every digit of the input is stored, 12 or 13 of them.
EAN13_new(d) ==
    LET r == Parse_parse(d, 12, 13, DigitChars)
    IN  IF r.ok THEN Ok(ToDigits(r.val)) ELSE r

\* EAN13::checksum_digit
EAN13_checksum_digit(v) == 10 - (((SumAt(v, 1) * 3) + SumAt(v, 0)) % 10)

\* EAN13::char_encoding: EAN13_ENCODINGS[side][d], a digit past the table panics.
EAN13_char_encoding(side, d) ==
    IF d < Len(EAN13_ENCODINGS[side + 1])
    THEN Bits(EAN13_ENCODINGS[side + 1][d + 1])
    ELSE Panic

\* All of the encodings in order, or a panic if one of them panicked.
Concat(encs) ==
    IF \E k \in 1..Len(encs) : encs[k].panic
    THEN Panic
    ELSE Bits(Flatten([k \in 1..Len(encs) |-> encs[k].bits]))

EAN13_number_system_encoding(v) == EAN13_char_encoding(0, v[2])

EAN13_checksum_encoding(v) == EAN13_char_encoding(2, EAN13_checksum_digit(v))

EAN13_left_digits(v) == Slice(v, 2, 7)

EAN13_right_digits(v) == Slice(v, 7, Len(v))

EAN13_parity_mapping(v) == EAN13_PARITY[v[1] + 1]

EAN13_left_payload(v) ==
    LET ds == EAN13_left_digits(v)
    IN  Concat([k \in 1..Len(ds) |-> EAN13_char_encoding(EAN13_parity_mapping(v)[k], ds[k])])

EAN13_right_payload(v) ==
    LET ds == EAN13_right_digits(v)
    IN  Concat([k \in 1..Len(ds) |-> EAN13_char_encoding(2, ds[k])])

\* impl Encode for EAN13
EAN13_encode(v) ==
    Concat(<< Bits(EAN13_GUARDS[1]), EAN13_number_system_encoding(v), EAN13_left_payload(v),
              Bits(EAN13_GUARDS[2]), EAN13_right_payload(v), EAN13_checksum_encoding(v),
              Bits(EAN13_GUARDS[3]) >>)

(***************************************************************************)
(* EAN-8 (src/src/sym/ean8.rs)                                             *)
(***************************************************************************)
\* EAN8_ENCODINGS: left side, right side.
EAN8_ENCODINGS ==
  <<
    << <<0, 0, 0, 1, 1, 0, 1>>,
       <<0, 0, 1, 1, 0, 0, 1>>,
       <<0, 0, 1, 0, 0, 1, 1>>,
       <<0, 1, 1, 1, 1, 0, 1>>,
       <<0, 1, 0, 0, 0, 1, 1>>,
       <<0, 1, 1, 0, 0, 0, 1>>,
       <<0, 1, 0, 1, 1, 1, 1>>,
       <<0, 1, 1, 1, 0, 1, 1>>,
       <<0, 1, 1, 0, 1, 1, 1>>,
       <<0, 0, 0, 1, 0, 1, 1>> >>,
    << <<1, 1, 1, 0, 0, 1, 0>>,
       <<1, 1, 0, 0, 1, 1, 0>>,
       <<1, 1, 0, 1, 1, 0, 0>>,
       <<1, 0, 0, 0, 0, 1, 0>>,
       <<1, 0, 1, 1, 1, 0, 0>>,
       <<1, 0, 0, 1, 1, 1, 0>>,
       <<1, 0, 1, 0, 0, 0, 0>>,
       <<1, 0, 0, 0, 1, 0, 0>>,
       <<1, 0, 0, 1, 0, 0, 0>>,
       <<1, 1, 1, 0, 1, 0, 0>> >>
  >>

\* Left, middle, right.
EAN8_GUARDS == << <<1, 0, 1>>, <<0, 1, 0, 1, 0>>, <<1, 0, 1>> >>

\* EAN8::new: every digit of the input is stored, 7 or 8 of them.
EAN8_new(d) ==
    LET r == Parse_parse(d, 7, 8, DigitChars)
    IN  IF r.ok THEN Ok(ToDigits(r.val)) ELSE r

\* EAN8::checksum_digit
EAN8_checksum_digit(v) == 10 - (((SumAt(v, 0) * 3) + SumAt(v, 1)) % 10)

\* EAN8::char_encoding
EAN8_char_encoding(side, d) ==
    IF d < Len(EAN8_ENCODINGS[side + 1])
    THEN Bits(EAN8_ENCODINGS[side + 1][d + 1])
    ELSE Panic

EAN8_number_system_encoding(v) ==
    LET ds == Slice(v, 0, 2)
    IN  Concat([k \in 1..Len(ds) |-> EAN8_char_encoding(0, ds[k])])

EAN8_checksum_encoding(v) == EAN8_char_encoding(1, EAN8_checksum_digit(v))

EAN8_left_payload(v) ==
    LET ds == Slice(v, 2, 4)
    IN  Concat([k \in 1..Len(ds) |-> EAN8_char_encoding(0, ds[k])])

EAN8_right_payload(v) ==
    LET ds == Slice(v, 4, Len(v))
    IN  Concat([k \in 1..Len(ds) |-> EAN8_char_encoding(1, ds[k])])

\* impl Encode for EAN8
EAN8_encode(v) ==
    Concat(<< Bits(EAN8_GUARDS[1]), EAN8_number_system_encoding(v), EAN8_left_payload(v),
              Bits(EAN8_GUARDS[2]), EAN8_right_payload(v), EAN8_checksum_encoding(v),
              Bits(EAN8_GUARDS[3]) >>)

(***************************************************************************)
(* UPC-A (src/src/sym/upca.rs)                                             *)
(***************************************************************************)
\* upca::ENCODINGS: left side, right side.
UPCA_ENCODINGS ==
  <<
    << <<0, 0, 0, 1, 1, 0, 1>>,
       <<0, 0, 1, 1, 0, 0, 1>>,
       <<0, 0, 1, 0, 0, 1, 1>>,
       <<0, 1, 1, 1, 1, 0, 1>>,
       <<0, 1, 0, 0, 0, 1, 1>>,
       <<0, 1, 1, 0, 0, 0, 1>>,
       <<0, 1, 0, 1, 1, 1, 1>>,
       <<0, 1, 1, 1, 0, 1, 1>>,
       <<0, 1, 1, 0, 1, 1, 1>>,
       <<0, 0, 0, 1, 0, 1, 1>> >>,
    << <<1, 1, 1, 0, 0, 1, 0>>,
       <<1, 1, 0, 0, 1, 1, 0>>,
       <<1, 1, 0, 1, 1, 0, 0>>,
       <<1, 0, 0, 0, 0, 1, 0>>,
       <<1, 0, 1, 1, 1, 0, 0>>,
       <<1, 0, 0, 1, 1, 1, 0>>,
       <<1, 0, 1, 0, 0, 0, 0>>,
       <<1, 0, 0, 0, 1, 0, 0>>,
       <<1, 0, 0, 1, 0, 0, 0>>,
       <<1, 1, 1, 0, 1, 0, 0>> >>
  >>


UPCA_LEFT_GUARD == <<1, 0, 1>>
UPCA_MIDDLE_GUARD == <<0, 1, 0, 1, 0>>
UPCA_RIGHT_GUARD == <<1, 0, 1>>

\* UPCA::checksum_digit (eleven digits cannot overflow the u8 sums)
UPCA_checksum_digit(v) == modulo_10_checksum(v, FALSE).v

\* UPCA::new: the first eleven digits are stored; a twelfth is verified.
UPCA_new(d) ==
    LET r      == Parse_parse(d, 11, 12, DigitChars)
        digits == ToDigits(r.val)
        upca   == Slice(digits, 0, 11)
    IN  IF ~r.ok THEN r
        ELSE IF Len(digits) = 12 /\ UPCA_checksum_digit(upca) # digits[12]
        THEN Err("Checksum")
        ELSE Ok(upca)

\* UPCA::char_encoding
UPCA_char_encoding(side, d) ==
    IF d < Len(UPCA_ENCODINGS[side + 1])
    THEN Bits(UPCA_ENCODINGS[side + 1][d + 1])
    ELSE Panic

UPCA_checksum_encoding(v) == UPCA_char_encoding(1, UPCA_checksum_digit(v))

UPCA_left_payload(v) ==
    LET ds == Slice(v, 0, 6)
    IN  Concat([k \in 1..Len(ds) |-> UPCA_char_encoding(0, ds[k])])

UPCA_right_payload(v) ==
    LET ds == Slice(v, 6, Len(v))
    IN  Concat([k \in 1..Len(ds) |-> UPCA_char_encoding(1, ds[k])])

\* UPCA::encode
UPCA_encode(v) ==
    Concat(<< Bits(UPCA_LEFT_GUARD), UPCA_left_payload(v), Bits(UPCA_MIDDLE_GUARD),
              UPCA_right_payload(v), UPCA_checksum_encoding(v), Bits(UPCA_RIGHT_GUARD) >>)

(***************************************************************************)
(* EAN-2 and EAN-5 supplements (src/src/sym/ean_supp.rs)                   *)
(***************************************************************************)
EAN_SUPP_LEFT_GUARD == <<1, 0, 1, 1>>

\* Parity (odd/even) of the EAN-5 digits, by the check digit.
EAN5_PARITY ==
  << <<0, 0, 1, 1, 1>>, <<1, 0, 1, 0, 0>>, <<1, 0, 0, 1, 0>>, <<1, 0, 0, 0, 1>>,
     <<0, 1, 1, 0, 0>>, <<0, 0, 1, 1, 0>>, <<0, 0, 0, 1, 1>>, <<0, 1, 0, 1, 0>>,
     <<0, 1, 0, 0, 1>>, <<0, 0, 1, 0, 1>> >>

\* Parity (odd/even) of the EAN-2 digits, by the value modulo 4.
EAN2_PARITY ==
  << <<0, 0, 0, 0, 0>>, <<0, 1, 0, 0, 0>>, <<1, 0, 0, 0, 0>>, <<1, 1, 0, 0, 0>> >>

\* ean13::ENCODING_LEFT_A and ENCODING_LEFT_B, the two left-side tables
ENCODING_LEFT_A == EAN13_ENCODINGS[1]
ENCODING_LEFT_B == EAN13_ENCODINGS[2]

\* A buffer of n zeros: vec![0; n]
Zeros(n) == [i \in 1..n |-> 0]

\* The sequential writes buffer[i] = bit; i += 1 of the bits w into buffer,
\* from index 0: a write past the end of the buffer panics.
WriteInto(buffer, w) ==
    IF w.panic \/ Len(w.bits) > Len(buffer)
    THEN Panic
    ELSE Bits(w.bits \o SubSeq(buffer, Len(w.bits) + 1, Len(buffer)))

\* ean_encode_into: the modules it writes, in order
ean_encode_into(this, parity) ==
    Concat(<<Bits(EAN_SUPP_LEFT_GUARD)>> \o
           [j \in 1..Len(this) |->
               IF this[j] >= Len(ENCODING_LEFT_A)
               THEN Panic
               ELSE Bits((IF j > 1 THEN <<0, 1>> ELSE <<>>) \o
                         (IF parity[j] = 0 THEN ENCODING_LEFT_A[this[j] + 1]
                                          ELSE ENCODING_LEFT_B[this[j] + 1]))])

\* EAN2::new
EAN2_new(d) ==
    IF Len(d) # 2 THEN Err("Length")
    ELSE IF d[1] < 48 \/ d[2] < 48 THEN Err("Character")
    ELSE IF d[1] - 48 > 9 \/ d[2] - 48 > 9 THEN Err("Character")
    ELSE Ok(<<d[1] - 48, d[2] - 48>>)

\* EAN2::encode_into
EAN2_encode_into(v) ==
    LET modulo == v[1] * 10 + v[2]
    IN  ean_encode_into(v, EAN2_PARITY[(modulo % 4) + 1])

\* EAN2::encode
EAN2_encode(v) == WriteInto(Zeros(20), EAN2_encode_into(v))

\* EAN5::new
EAN5_new(d) ==
    IF Len(d) # 5 THEN Err("Length")
    ELSE IF \E i \in 1..5 : d[i] < 48
    THEN Err("Character")
    ELSE Ok([i \in 1..5 |-> d[i] - 48])

\* EAN5::checksum_index: odds and evens are u8; overflow tells whether some
\* intermediate value left the u8 range.
EAN5_checksum_index(v) ==
    LET odds  == SumAt(v, 0)
        evens == SumAt(v, 1)
        o3    == (odds % 256) * 3
        e9    == (evens % 256) * 9
        sum   == (o3 % 256) + (e9 % 256)
        m     == (sum % 256) % 10
    IN  [overflow |-> odds > 255 \/ evens > 255 \/ o3 > 255 \/ e9 > 255 \/ sum > 255,
         v |-> IF m = 10 THEN 0 ELSE m]

\* EAN5::encode_into, in a build that wraps on overflow
EAN5_encode_into(v) == ean_encode_into(v, EAN5_PARITY[EAN5_checksum_index(v).v + 1])

\* EAN5::encode: the outcomes the builds can produce (with overflow checks
\* an overflowing sum panics; without them it wraps).
EAN5_encode(v) ==
    {WriteInto(Zeros(47), EAN5_encode_into(v))}
    \cup (IF EAN5_checksum_index(v).overflow THEN {Panic} ELSE {})

(***************************************************************************)
(* The shared validate (src/src/sym.rs, src/src/lib.rs) and the            *)
(* symbologies that use it with SIZE = 1..256                              *)
(***************************************************************************)
\* BarcodeDevExt::validate, for SIZE = lo..hi and CHARS = chars
BarcodeDevExt_validate(d, lo, hi, chars) ==
    LET len == Len(d) % 65536
    IN  IF len < lo \/ len > hi
        THEN Err("Length")
        ELSE IF \E i \in 1..Len(d) : d[i] \notin chars
        THEN Err("Character")
        ELSE Ok(d)

\* Barcode::validate, for SIZE = lo..hi and ALLOWED_VALUES = allowed
Barcode_validate(d, lo, hi, allowed) ==
    LET len == Len(d) % 65536
    IN  IF len < lo \/ len > hi
        THEN Err("Length")
        ELSE IF \E i \in 1..Len(d) : d[i] \notin allowed
        THEN Err("Character")
        ELSE Ok(d)

\* b"0123456789ABCDEFGHIJKLMNOPQRSTUVWXYZ-. $/+%"
Code39_CHARS == (48..57) \cup (65..90) \cup {45, 46, 32, 36, 47, 43, 37}

\* b"0123456789ABCDEFGHIJKLMNOPQRSTUVWXYZ-. $/+%()[]"
Code93_CHARS == Code39_CHARS \cup {40, 41, 91, 93}

\* b"0123456789-"
Code11_CHARS == (48..57) \cup {45}

\* digits, - $ : / . + A B C D
Codabar_ALLOWED_VALUES == (48..57) \cup {45, 36, 58, 47, 46, 43, 65, 66, 67, 68}

\* SIZE: Range<u16> = 1..256
SIZE_start == 1
SIZE_end == 256

\* Self::validate(data).map(|data| Self { checksum, data })
Code39_validated(d, checksum) ==
    LET r == BarcodeDevExt_validate(d, SIZE_start, SIZE_end, Code39_CHARS)
    IN  IF r.ok THEN Ok([checksum |-> checksum, data |-> r.val]) ELSE r

\* Code39::new (checksum: false)
Code39_new(d) == Code39_validated(d, FALSE)

\* Code39::with_checksum (checksum: true)
Code39_with_checksum(d) == Code39_validated(d, TRUE)

\* Code93::new
Code93_new(d) == Barcode_validate(d, SIZE_start, SIZE_end, Code93_CHARS)

\* Code11::new
Code11_new(d) == BarcodeDevExt_validate(d, SIZE_start, SIZE_end, Code11_CHARS)

\* Codabar::new
Codabar_new(d) == Barcode_validate(d, SIZE_start, SIZE_end, Codabar_ALLOWED_VALUES)

(***************************************************************************)
(* Writing into a caller's buffer                                          *)
(***************************************************************************)
\* buffer with its first elements replaced by those of w (as far as it goes)
Overwrite(buffer, w) ==
    [i \in 1..Len(buffer) |-> IF i <= Len(w) THEN w[i] ELSE buffer[i]]

\* The sequential writes buffer[i] = bit; i += 1 of the chunks, in order, from
\* index 0. A chunk whose lookup panics, or a write past the end of the buffer,
\* stops with a panic and leaves in the buffer what was written before it.
WriteChunks(buffer, chunks) ==
    LET bad  == {k \in 1..Len(chunks) : chunks[k].panic}
        upto == IF bad = {} THEN Len(chunks)
                ELSE (CHOOSE k \in bad : \A j \in bad : k <= j) - 1
        w    == Flatten([k \in 1..upto |-> chunks[k].bits])
    IN  [panic |-> bad # {} \/ Len(w) > Len(buffer), bits |-> Overwrite(buffer, w)]

\* encode(): the buffer vec![0; sum] after encode_into wrote r into it
EncodeAlloc(r) == IF r.panic THEN Panic ELSE Bits(r.bits)

\* encode_in_place: None for a buffer shorter than sum, else encode_into's
\* effect r on the buffer and Some(())
EncodeInPlace(buffer, sum, r) ==
    IF Len(buffer) < sum
    THEN [ret |-> "None", buffer |-> buffer]
    ELSE [ret |-> IF r.panic THEN "panic" ELSE "Some", buffer |-> r.bits]

\* Not called yet
NoReturn == [ret |-> "none", buffer |-> <<>>]

\* CHARS.iter().position(|t| t.0 == c): 0-based, -1 for None
Position(table, c) ==
    IF \E k \in 1..Len(table) : table[k][1] = c
    THEN (CHOOSE k \in 1..Len(table) : table[k][1] = c) - 1
    ELSE -1

\* CHARS[id].1 after position(..).unwrap(): unwrap panics on None
TablePattern(table, id) == IF id < 0 THEN Panic ELSE Bits(table[id + 1][2])

(***************************************************************************)
(* Code39 (src/src/sym/code39.rs)                                          *)
(***************************************************************************)
Code39_CHARS_COUNT == 43
Code39_CHAR_SIZE == 12
Code39_PADDING_SIZE == 1
Code39_PADDING == 0

Code39_CHAR_TABLE ==
  <<
    << 48, <<1, 0, 1, 0, 0, 1, 1, 0, 1, 1, 0, 1>> >>,  \* '0'
    << 49, <<1, 1, 0, 1, 0, 0, 1, 0, 1, 0, 1, 1>> >>,  \* '1'
    << 50, <<1, 0, 1, 1, 0, 0, 1, 0, 1, 0, 1, 1>> >>,  \* '2'
    << 51, <<1, 1, 0, 1, 1, 0, 0, 1, 0, 1, 0, 1>> >>,  \* '3'
    << 52, <<1, 0, 1, 0, 0, 1, 1, 0, 1, 0, 1, 1>> >>,  \* '4'
    << 53, <<1, 1, 0, 1, 0, 0, 1, 1, 0, 1, 0, 1>> >>,  \* '5'
    << 54, <<1, 0, 1, 1, 0, 0, 1, 1, 0, 1, 0, 1>> >>,  \* '6'
    << 55, <<1, 0, 1, 0, 0, 1, 0, 1, 1, 0, 1, 1>> >>,  \* '7'
    << 56, <<1, 1, 0, 1, 0, 0, 1, 0, 1, 1, 0, 1>> >>,  \* '8'
    << 57, <<1, 0, 1, 1, 0, 0, 1, 0, 1, 1, 0, 1>> >>,  \* '9'
    << 65, <<1, 1, 0, 1, 0, 1, 0, 0, 1, 0, 1, 1>> >>,  \* 'A'
    << 66, <<1, 0, 1, 1, 0, 1, 0, 0, 1, 0, 1, 1>> >>,  \* 'B'
    << 67, <<1, 1, 0, 1, 1, 0, 1, 0, 0, 1, 0, 1>> >>,  \* 'C'
    << 68, <<1, 0, 1, 0, 1, 1, 0, 0, 1, 0, 1, 1>> >>,  \* 'D'
    << 69, <<1, 1, 0, 1, 0, 1, 1, 0, 0, 1, 0, 1>> >>,  \* 'E'
    << 70, <<1, 0, 1, 1, 0, 1, 1, 0, 0, 1, 0, 1>> >>,  \* 'F'
    << 71, <<1, 0, 1, 0, 1, 0, 0, 1, 1, 0, 1, 1>> >>,  \* 'G'
    << 72, <<1, 1, 0, 1, 0, 1, 0, 0, 1, 1, 0, 1>> >>,  \* 'H'
    << 73, <<1, 0, 1, 1, 0, 1, 0, 0, 1, 1, 0, 1>> >>,  \* 'I'
    << 74, <<1, 0, 1, 0, 1, 1, 0, 0, 1, 1, 0, 1>> >>,  \* 'J'
    << 75, <<1, 1, 0, 1, 0, 1, 0, 1, 0, 0, 1, 1>> >>,  \* 'K'
    << 76, <<1, 0, 1, 1, 0, 1, 0, 1, 0, 0, 1, 1>> >>,  \* 'L'
    << 77, <<1, 1, 0, 1, 1, 0, 1, 0, 1, 0, 0, 1>> >>,  \* 'M'
    << 78, <<1, 0, 1, 0, 1, 1, 0, 1, 0, 0, 1, 1>> >>,  \* 'N'
    << 79, <<1, 1, 0, 1, 0, 1, 1, 0, 1, 0, 0, 1>> >>,  \* 'O'
    << 80, <<1, 0, 1, 1, 0, 1, 1, 0, 1, 0, 0, 1>> >>,  \* 'P'
    << 81, <<1, 0, 1, 0, 1, 0, 1, 1, 0, 0, 1, 1>> >>,  \* 'Q'
    << 82, <<1, 1, 0, 1, 0, 1, 0, 1, 1, 0, 0, 1>> >>,  \* 'R'
    << 83, <<1, 0, 1, 1, 0, 1, 0, 1, 1, 0, 0, 1>> >>,  \* 'S'
    << 84, <<1, 0, 1, 0, 1, 1, 0, 1, 1, 0, 0, 1>> >>,  \* 'T'
    << 85, <<1, 1, 0, 0, 1, 0, 1, 0, 1, 0, 1, 1>> >>,  \* 'U'
    << 86, <<1, 0, 0, 1, 1, 0, 1, 0, 1, 0, 1, 1>> >>,  \* 'V'
    << 87, <<1, 1, 0, 0, 1, 1, 0, 1, 0, 1, 0, 1>> >>,  \* 'W'
    << 88, <<1, 0, 0, 1, 0, 1, 1, 0, 1, 0, 1, 1>> >>,  \* 'X'
    << 89, <<1, 1, 0, 0, 1, 0, 1, 1, 0, 1, 0, 1>> >>,  \* 'Y'
    << 90, <<1, 0, 0, 1, 1, 0, 1, 1, 0, 1, 0, 1>> >>,  \* 'Z'
    << 45, <<1, 0, 0, 1, 0, 1, 0, 1, 1, 0, 1, 1>> >>,  \* '-'
    << 46, <<1, 1, 0, 0, 1, 0, 1, 0, 1, 1, 0, 1>> >>,  \* '.'
    << 32, <<1, 0, 0, 1, 1, 0, 1, 0, 1, 1, 0, 1>> >>,  \* ' '
    << 36, <<1, 0, 0, 1, 0, 0, 1, 0, 0, 1, 0, 1>> >>,  \* '$'
    << 47, <<1, 0, 0, 1, 0, 0, 1, 0, 1, 0, 0, 1>> >>,  \* '/'
    << 43, <<1, 0, 0, 1, 0, 1, 0, 0, 1, 0, 0, 1>> >>,  \* '+'
    << 37, <<1, 0, 1, 0, 0, 1, 0, 0, 1, 0, 0, 1>> >>  \* '%'
  >>

\* '*'
Code39_GUARD == <<1, 0, 0, 1, 0, 1, 1, 0, 1, 1, 0, 1>>

\* char2id
Code39_char2id(c) == Position(Code39_CHAR_TABLE, c)

\* calc_sum making room for the checksum character whatever the flag
Code39_calc_sum_AlwaysChecksum(v) ==
    LET payload == (Len(v.data) + 1) * (Code39_CHAR_SIZE + Code39_PADDING_SIZE)
    IN  Code39_CHAR_SIZE + Code39_PADDING_SIZE + payload + Code39_CHAR_SIZE

\* Code39::calc_sum
Code39_calc_sum(v) ==
    LET payload == Len(v.data) * (Code39_CHAR_SIZE + Code39_PADDING_SIZE)
                   + (IF v.checksum THEN Code39_CHAR_SIZE + Code39_PADDING_SIZE ELSE 0)
    IN  Code39_CHAR_SIZE + Code39_PADDING_SIZE + payload + Code39_CHAR_SIZE

\* Code39::calc_checksum: unwrap of a missing position panics
Code39_calc_checksum(v) ==
    LET ids == [k \in 1..Len(v.data) |-> Code39_char2id(v.data[k])]
    IN  IF \E k \in 1..Len(ids) : ids[k] < 0
        THEN Panic
        ELSE Bits(Code39_CHAR_TABLE[(SumSeq(ids) % Code39_CHARS_COUNT) + 1][2])

\* encode_into leaving out the padding after the checksum character
Code39_encode_into_NoChecksumPadding(v, buffer) ==
    WriteChunks(buffer,
        <<Bits(Code39_GUARD), Bits(<<Code39_PADDING>>)>>
        \o Flatten([k \in 1..Len(v.data) |->
              << TablePattern(Code39_CHAR_TABLE, Code39_char2id(v.data[k])),
                 Bits(<<Code39_PADDING>>) >>])
        \o (IF v.checksum THEN <<Code39_calc_checksum(v)>> ELSE <<>>)
        \o <<Bits(Code39_GUARD)>>)

\* Code39::encode_into
Code39_encode_into(v, buffer) ==
    WriteChunks(buffer,
        <<Bits(Code39_GUARD), Bits(<<Code39_PADDING>>)>>
        \o Flatten([k \in 1..Len(v.data) |->
              << TablePattern(Code39_CHAR_TABLE, Code39_char2id(v.data[k])),
                 Bits(<<Code39_PADDING>>) >>])
        \o (IF v.checksum
            THEN <<Code39_calc_checksum(v), Bits(<<Code39_PADDING>>)>>
            ELSE <<>>)
        \o <<Bits(Code39_GUARD)>>)

\* Code39::encode
Code39_encode(v) == EncodeAlloc(Code39_encode_into(v, Zeros(Code39_calc_sum(v))))

\* Code39::encode_in_place
Code39_encode_in_place(v, buffer) ==
    EncodeInPlace(buffer, Code39_calc_sum(v), Code39_encode_into(v, buffer))

(***************************************************************************)
(* Code93 (src/src/sym/code93.rs)                                          *)
(***************************************************************************)
Code93_CHARS_COUNT == 47
Code93_CHAR_SIZE == 9

Code93_CHAR_TABLE ==
  <<
    << 48, <<1, 0, 0, 0, 1, 0, 1, 0, 0>> >>,  \* '0'
    << 49, <<1, 0, 1, 0, 0, 1, 0, 0, 0>> >>,  \* '1'
    << 50, <<1, 0, 1, 0, 0, 0, 1, 0, 0>> >>,  \* '2'
    << 51, <<1, 0, 1, 0, 0, 0, 0, 1, 0>> >>,  \* '3'
    << 52, <<1, 0, 0, 1, 0, 1, 0, 0, 0>> >>,  \* '4'
    << 53, <<1, 0, 0, 1, 0, 0, 1, 0, 0>> >>,  \* '5'
    << 54, <<1, 0, 0, 1, 0, 0, 0, 1, 0>> >>,  \* '6'
    << 55, <<1, 0, 1, 0, 1, 0, 0, 0, 0>> >>,  \* '7'
    << 56, <<1, 0, 0, 0, 1, 0, 0, 1, 0>> >>,  \* '8'
    << 57, <<1, 0, 0, 0, 0, 1, 0, 1, 0>> >>,  \* '9'
    << 65, <<1, 1, 0, 1, 0, 1, 0, 0, 0>> >>,  \* 'A'
    << 66, <<1, 1, 0, 1, 0, 0, 1, 0, 0>> >>,  \* 'B'
    << 67, <<1, 1, 0, 1, 0, 0, 0, 1, 0>> >>,  \* 'C'
    << 68, <<1, 1, 0, 0, 1, 0, 1, 0, 0>> >>,  \* 'D'
    << 69, <<1, 1, 0, 0, 1, 0, 0, 1, 0>> >>,  \* 'E'
    << 70, <<1, 1, 0, 0, 0, 1, 0, 1, 0>> >>,  \* 'F'
    << 71, <<1, 0, 1, 1, 0, 1, 0, 0, 0>> >>,  \* 'G'
    << 72, <<1, 0, 1, 1, 0, 0, 1, 0, 0>> >>,  \* 'H'
    << 73, <<1, 0, 1, 1, 0, 0, 0, 1, 0>> >>,  \* 'I'
    << 74, <<1, 0, 0, 1, 1, 0, 1, 0, 0>> >>,  \* 'J'
    << 75, <<1, 0, 0, 0, 1, 1, 0, 1, 0>> >>,  \* 'K'
    << 76, <<1, 0, 1, 0, 1, 1, 0, 0, 0>> >>,  \* 'L'
    << 77, <<1, 0, 1, 0, 0, 1, 1, 0, 0>> >>,  \* 'M'
    << 78, <<1, 0, 1, 0, 0, 0, 1, 1, 0>> >>,  \* 'N'
    << 79, <<1, 0, 0, 1, 0, 1, 1, 0, 0>> >>,  \* 'O'
    << 80, <<1, 0, 0, 0, 1, 0, 1, 1, 0>> >>,  \* 'P'
    << 81, <<1, 1, 0, 1, 1, 0, 1, 0, 0>> >>,  \* 'Q'
    << 82, <<1, 1, 0, 1, 1, 0, 0, 1, 0>> >>,  \* 'R'
    << 83, <<1, 1, 0, 1, 0, 1, 1, 0, 0>> >>,  \* 'S'
    << 84, <<1, 1, 0, 1, 0, 0, 1, 1, 0>> >>,  \* 'T'
    << 85, <<1, 1, 0, 0, 1, 0, 1, 1, 0>> >>,  \* 'U'
    << 86, <<1, 1, 0, 0, 1, 1, 0, 1, 0>> >>,  \* 'V'
    << 87, <<1, 0, 1, 1, 0, 1, 1, 0, 0>> >>,  \* 'W'
    << 88, <<1, 0, 1, 1, 0, 0, 1, 1, 0>> >>,  \* 'X'
    << 89, <<1, 0, 0, 1, 1, 0, 1, 1, 0>> >>,  \* 'Y'
    << 90, <<1, 0, 0, 1, 1, 1, 0, 1, 0>> >>,  \* 'Z'
    << 45, <<1, 0, 0, 1, 0, 1, 1, 1, 0>> >>,  \* '-'
    << 46, <<1, 1, 1, 0, 1, 0, 1, 0, 0>> >>,  \* '.'
    << 32, <<1, 1, 1, 0, 1, 0, 0, 1, 0>> >>,  \* ' '
    << 36, <<1, 1, 1, 0, 0, 1, 0, 1, 0>> >>,  \* '$'
    << 47, <<1, 0, 1, 1, 0, 1, 1, 1, 0>> >>,  \* '/'
    << 43, <<1, 0, 1, 1, 1, 0, 1, 1, 0>> >>,  \* '+'
    << 37, <<1, 1, 0, 1, 0, 1, 1, 1, 0>> >>,  \* '%'
    << 40, <<1, 0, 0, 1, 0, 0, 1, 1, 0>> >>,  \* '('
    << 41, <<1, 1, 1, 0, 1, 1, 0, 1, 0>> >>,  \* ')'
    << 91, <<1, 1, 1, 0, 1, 0, 1, 1, 0>> >>,  \* '['
    << 93, <<1, 0, 0, 1, 1, 0, 0, 1, 0>> >>  \* ']'
  >>

\* '*'
Code93_GUARD == <<1, 0, 1, 0, 1, 1, 1, 1, 0>>
Code93_TERMINATOR == <<1>>

\* char2id
Code93_char2id(c) == Position(Code93_CHAR_TABLE, c)

\* The weight with a zero result kept
Code93_weight_ZeroKept(datalen, weight_threshold, i) ==
    (datalen - i) % weight_threshold

\* The closure weight of checksum_char: (datalen - i) % weight_threshold, a
\* zero replaced by the threshold
Code93_weight(datalen, weight_threshold, i) ==
    LET n == (datalen - i) % weight_threshold
    IN  IF n = 0 THEN weight_threshold ELSE n

\* checksum_char(data, weight_threshold, c_checksum): c_checksum is <<>> for
\* None and <<c>> for Some(c). The byte of the checksum character, -1 when an
\* unwrap in char2id panics.
Code93_checksum_char(d, weight_threshold, c_checksum) ==
    LET datalen == Len(d) + (IF c_checksum # <<>> THEN 1 ELSE 0)
        all     == d \o c_checksum
        pos     == [k \in 1..Len(all) |-> Code93_char2id(all[k])]
        sum     == SumSeq([k \in 1..Len(all) |->
                              Code93_weight(datalen, weight_threshold, k - 1) * pos[k]])
    IN  IF \E k \in 1..Len(all) : pos[k] < 0
        THEN -1
        ELSE Code93_CHAR_TABLE[(sum % Code93_CHARS_COUNT) + 1][1]

\* Code93::calc_checksum_c
Code93_calc_checksum_c(d) == Code93_checksum_char(d, 20, <<>>)

\* Code93::calc_checksum_k
Code93_calc_checksum_k(d, c_checksum) == Code93_checksum_char(d, 15, <<c_checksum>>)

\* Code93::calc_sum
Code93_calc_sum(d) ==
    LET checksum_c == Code93_CHAR_SIZE
        checksum_k == Code93_CHAR_SIZE
        payload    == Len(d) * Code93_CHAR_SIZE
        guard      == Code93_CHAR_SIZE
        terminator == 1
    IN  guard + payload + checksum_c + checksum_k + guard + terminator

\* Code93::encode_into: the checksums are computed after the data was written
Code93_encode_into(d, buffer) ==
    LET c == Code93_calc_checksum_c(d)
        k == IF c < 0 THEN -1 ELSE Code93_calc_checksum_k(d, c)
    IN  WriteChunks(buffer,
            <<Bits(Code93_GUARD)>>
            \o [j \in 1..Len(d) |-> TablePattern(Code93_CHAR_TABLE, Code93_char2id(d[j]))]
            \o << IF c < 0 \/ k < 0 THEN Panic
                  ELSE TablePattern(Code93_CHAR_TABLE, Code93_char2id(c)),
                  IF c < 0 \/ k < 0 THEN Panic
                  ELSE TablePattern(Code93_CHAR_TABLE, Code93_char2id(k)),
                  Bits(Code93_GUARD),
                  Bits(Code93_TERMINATOR) >>)

\* Code93::encode
Code93_encode(d) == EncodeAlloc(Code93_encode_into(d, Zeros(Code93_calc_sum(d))))

\* Code93::encode_in_place
Code93_encode_in_place(d, buffer) ==
    EncodeInPlace(buffer, Code93_calc_sum(d), Code93_encode_into(d, buffer))

(***************************************************************************)
(* Code11 (src/src/sym/code11.rs)                                          *)
(***************************************************************************)
\* char_lookup: '0'-'9' -> 0-9, '-' -> 10; -1 stands for unreachable!()
Code11_char_lookup(c) ==
    IF IsDigit(c) THEN c - 48
    ELSE IF c = 45 THEN 10
    ELSE -1

\* The closure weight of checksum_char
Code11_weight(weight_threshold, i) ==
    LET n == i % weight_threshold
    IN  IF n = 0 THEN weight_threshold ELSE n

\* The modulo value of checksum_char
Code11_MODULO == 11

\* checksum_char(data, weight_threshold, c_checksum): c_checksum is <<>> for
\* None and <<c>> for Some(c). The byte of the checksum character, -1 when
\* char_lookup reaches unreachable!().
Code11_checksum_char(d, weight_threshold, c_checksum) ==
    LET n          == Len(d)
        weight_mod == IF c_checksum # <<>> THEN 2 ELSE 1
        \* positions.rev().enumerate(): i = 0 is the last byte of data
        folded     == SumSeq([i \in 1..n |->
                         Code11_weight(weight_threshold, (i - 1) + weight_mod)
                             * Code11_char_lookup(d[n - (i - 1)])])
        index      == IF c_checksum # <<>>
                      THEN folded + Code11_char_lookup(c_checksum[1])
                      ELSE folded
        m          == index % Code11_MODULO
    IN  IF (\E i \in 1..n : Code11_char_lookup(d[i]) < 0)
           \/ (c_checksum # <<>> /\ Code11_char_lookup(c_checksum[1]) < 0)
        THEN -1
        ELSE IF m = 10 THEN 45 ELSE m + 48

Code11_GUARD_LENGTH == 7
Code11_GUARD == <<1, 0, 1, 1, 0, 0, 1>>
Code11_PADDING == 1
Code11_SEPARATOR == 0

\* Code11::calc_c_checksum
Code11_calc_c_checksum(d) == Code11_checksum_char(d, 10, <<>>)

\* calc_k_checksum with the weight threshold of the C checksum
Code11_calc_k_checksum_Threshold10(d, c_checksum) ==
    Code11_checksum_char(d, 10, <<c_checksum>>)

\* Code11::calc_k_checksum
Code11_calc_k_checksum(d, c_checksum) == Code11_checksum_char(d, 9, <<c_checksum>>)

\* The match of calc_sum_and_checksums on one byte: its width, -1 for
\* unreachable!()
Code11_width(c) ==
    IF c \in {48, 57, 45} THEN 6
    ELSE IF c >= 49 /\ c <= 56 THEN 7
    ELSE -1

\* K is appended only to data of more than this many characters
Code11_K_MIN_LEN == 10

\* calc_sum_and_checksums appending K from the threshold length on
Code11_calc_sum_and_checksums_KFromThreshold(d) ==
    LET widths  == [i \in 1..Len(d) |-> Code11_width(d[i])]
        c       == Code11_calc_c_checksum(d)
        has_k   == Len(d) >= Code11_K_MIN_LEN
        k       == IF has_k /\ c >= 0 THEN Code11_calc_k_checksum(d, c) ELSE -1
        payload == SumSeq([i \in 1..Len(d) |-> widths[i] + Code11_PADDING])
                   + Code11_width(c) + Code11_PADDING
                   + (IF has_k THEN Code11_width(k) + Code11_PADDING ELSE 0)
    IN  [panic |-> (\E i \in 1..Len(d) : widths[i] < 0)
                   \/ Code11_width(c) < 0
                   \/ (has_k /\ Code11_width(k) < 0),
         sum   |-> Code11_GUARD_LENGTH + Code11_PADDING + payload + Code11_GUARD_LENGTH,
         c     |-> c,
         k     |-> IF has_k THEN <<k>> ELSE <<>>]

\* Code11::calc_sum_and_checksums: (sum, c_checksum, k_checksum); k is <<>> for
\* None
Code11_calc_sum_and_checksums(d) ==
    LET widths  == [i \in 1..Len(d) |-> Code11_width(d[i])]
        c       == Code11_calc_c_checksum(d)
        has_k   == Len(d) > Code11_K_MIN_LEN
        k       == IF has_k /\ c >= 0 THEN Code11_calc_k_checksum(d, c) ELSE -1
        payload == SumSeq([i \in 1..Len(d) |-> widths[i] + Code11_PADDING])
                   + Code11_width(c) + Code11_PADDING
                   + (IF has_k THEN Code11_width(k) + Code11_PADDING ELSE 0)
    IN  [panic |-> (\E i \in 1..Len(d) : widths[i] < 0)
                   \/ Code11_width(c) < 0
                   \/ (has_k /\ Code11_width(k) < 0),
         sum   |-> Code11_GUARD_LENGTH + Code11_PADDING + payload + Code11_GUARD_LENGTH,
         c     |-> c,
         k     |-> IF has_k THEN <<k>> ELSE <<>>]

\* The patterns of the macro enc! in encode_into
Code11_ENCODINGS ==
       (48 :> <<1, 0, 1, 0, 1, 1>>)  \* '0'
       @@ (49 :> <<1, 1, 0, 1, 0, 1, 1>>)  \* '1'
       @@ (50 :> <<1, 0, 0, 1, 0, 1, 1>>)  \* '2'
       @@ (51 :> <<1, 1, 0, 0, 1, 0, 1>>)  \* '3'
       @@ (52 :> <<1, 0, 1, 1, 0, 1, 1>>)  \* '4'
       @@ (53 :> <<1, 1, 0, 1, 1, 0, 1>>)  \* '5'
       @@ (54 :> <<1, 0, 0, 1, 1, 0, 1>>)  \* '6'
       @@ (55 :> <<1, 0, 1, 0, 0, 1, 1>>)  \* '7'
       @@ (56 :> <<1, 1, 0, 1, 0, 0, 1>>)  \* '8'
       @@ (57 :> <<1, 1, 0, 1, 0, 1>>)  \* '9'
       @@ (45 :> <<1, 0, 1, 1, 0, 1>>)  \* '-'

\* enc!(v): the pattern of the byte v, or the macro's unreachable!()
Code11_enc(c) ==
    IF c \in DOMAIN Code11_ENCODINGS THEN Bits(Code11_ENCODINGS[c]) ELSE Panic

\* Code11::encode_into(buffer, c, k)
Code11_encode_into(d, buffer, c, k) ==
    WriteChunks(buffer,
        <<Bits(Code11_GUARD), Bits(<<Code11_SEPARATOR>>)>>
        \o Flatten([i \in 1..Len(d) |-> <<Code11_enc(d[i]), Bits(<<Code11_SEPARATOR>>)>>])
        \o <<Code11_enc(c), Bits(<<Code11_SEPARATOR>>)>>
        \o (IF k # <<>> THEN <<Code11_enc(k[1]), Bits(<<Code11_SEPARATOR>>)>> ELSE <<>>)
        \o <<Bits(Code11_GUARD)>>)

\* Code11::encode
Code11_encode(d) ==
    LET s == Code11_calc_sum_and_checksums(d)
    IN  IF s.panic THEN Panic
        ELSE EncodeAlloc(Code11_encode_into(d, Zeros(s.sum), s.c, s.k))

\* Code11::encode_in_place
Code11_encode_in_place(d, buffer) ==
    LET s == Code11_calc_sum_and_checksums(d)
    IN  IF s.panic THEN [ret |-> "panic", buffer |-> buffer]
        ELSE EncodeInPlace(buffer, s.sum, Code11_encode_into(d, buffer, s.c, s.k))

(***************************************************************************)
(* Codabar (src/src/sym/codabar.rs)                                        *)
(***************************************************************************)
\* The match of get_sum on one byte: what it adds to sum before the padding,
\* -1 for unreachable!()
Codabar_sum_width(c) ==
    IF IsDigit(c) THEN 9
    ELSE IF c \in {45, 36, 58, 47, 46} THEN 10
    ELSE IF c = 43 THEN 12
    ELSE IF c \in {65, 66, 67, 68} THEN 10
    ELSE -1

\* Codabar::get_sum
Codabar_get_sum(d) ==
    [panic |-> \E i \in 1..Len(d) : Codabar_sum_width(d[i]) < 0,
     sum   |-> SumSeq([i \in 1..Len(d) |-> Codabar_sum_width(d[i]) + 1]) - 1]

\* The patterns of the macro encode! in encode_into
Codabar_ENCODINGS ==
       (48 :> <<1, 0, 1, 0, 1, 0, 0, 1, 1>>)  \* '0'
       @@ (49 :> <<1, 0, 1, 0, 1, 1, 0, 0, 1>>)  \* '1'
       @@ (50 :> <<1, 0, 1, 0, 0, 1, 0, 1, 1>>)  \* '2'
       @@ (51 :> <<1, 1, 0, 0, 1, 0, 1, 0, 1>>)  \* '3'
       @@ (52 :> <<1, 0, 1, 1, 0, 1, 0, 0, 1>>)  \* '4'
       @@ (53 :> <<1, 1, 0, 1, 0, 1, 0, 0, 1>>)  \* '5'
       @@ (54 :> <<1, 0, 0, 1, 0, 1, 0, 1, 1>>)  \* '6'
       @@ (55 :> <<1, 0, 0, 1, 0, 1, 1, 0, 1>>)  \* '7'
       @@ (56 :> <<1, 0, 0, 1, 1, 0, 1, 0, 1>>)  \* '8'
       @@ (57 :> <<1, 1, 0, 1, 0, 0, 1, 0, 1>>)  \* '9'
       @@ (45 :> <<1, 0, 1, 0, 0, 1, 1, 0, 1>>)  \* '-'
       @@ (36 :> <<1, 0, 1, 1, 0, 0, 1, 0, 1>>)  \* '$'
       @@ (58 :> <<1, 1, 0, 1, 0, 1, 1, 0, 1, 1>>)  \* ':'
       @@ (47 :> <<1, 1, 0, 1, 1, 0, 1, 0, 1, 1>>)  \* '/'
       @@ (46 :> <<1, 1, 0, 1, 1, 0, 1, 1, 0, 1>>)  \* '.'
       @@ (43 :> <<1, 0, 1, 1, 0, 0, 1, 1, 0, 0, 1>>)  \* '+'
       @@ (65 :> <<1, 0, 1, 1, 0, 0, 1, 0, 0, 1>>)  \* 'A'
       @@ (66 :> <<1, 0, 1, 0, 0, 1, 0, 0, 1, 1>>)  \* 'B'
       @@ (67 :> <<1, 0, 0, 1, 0, 0, 1, 0, 1, 1>>)  \* 'C'
       @@ (68 :> <<1, 0, 1, 0, 0, 1, 1, 0, 0, 1>>)  \* 'D'

\* Codabar::encode_into. Each byte writes its pattern at buffer[i + j] and then,
\* only if i < buffer.len(), one 0 of padding. The writes are those of the
\* stream of every pattern followed by its padding, cut at the end of the
\* buffer: a pattern that does not fit panics at the first index past the end,
\* a padding that does not fit is skipped, so that only a buffer shorter than
\* the stream less its last padding panics.
Codabar_encode_into(d, buffer) ==
    LET bad    == \E i \in 1..Len(d) : d[i] \notin DOMAIN Codabar_ENCODINGS
        known  == IF bad
                  THEN (CHOOSE i \in 1..Len(d) : 
                           /\ d[i] \notin DOMAIN Codabar_ENCODINGS
                           /\ \A j \in 1..(i - 1) : d[j] \in DOMAIN Codabar_ENCODINGS) - 1
                  ELSE Len(d)
        stream == Flatten([i \in 1..known |-> Codabar_ENCODINGS[d[i]] \o <<0>>])
    IN  [panic |-> bad \/ Len(buffer) < Len(stream) - 1,
         bits  |-> Overwrite(buffer, stream)]

\* Codabar::encode
Codabar_encode(d) ==
    LET s == Codabar_get_sum(d)
    IN  IF s.panic THEN Panic
        ELSE EncodeAlloc(Codabar_encode_into(d, Zeros(s.sum)))

\* Codabar::encode_in_place
Codabar_encode_in_place(d, buffer) ==
    LET s == Codabar_get_sum(d)
    IN  IF s.panic THEN [ret |-> "panic", buffer |-> buffer]
        ELSE EncodeInPlace(buffer, s.sum, Codabar_encode_into(d, buffer))

(***************************************************************************)
(* EAN2 / EAN5 in place (src/src/sym/ean_supp.rs)                          *)
(***************************************************************************)
\* ean_encode_into on a caller's buffer: the guard, then per digit the
\* separator 0 1 (from the second digit on) and the pattern; a digit past the
\* table panics after the separator before it was written.
ean_encode_into_buffer(this, parity, buffer) ==
    WriteChunks(buffer,
        <<Bits(EAN_SUPP_LEFT_GUARD)>>
        \o Flatten([j \in 1..Len(this) |->
              << Bits(IF j > 1 THEN <<0, 1>> ELSE <<>>),
                 IF this[j] >= Len(ENCODING_LEFT_A)
                 THEN Panic
                 ELSE Bits(IF parity[j] = 0 THEN ENCODING_LEFT_A[this[j] + 1]
                                            ELSE ENCODING_LEFT_B[this[j] + 1]) >>]))

\* EAN2::encode_in_place
EAN2_encode_in_place(v, buffer) ==
    LET modulo == v[1] * 10 + v[2]
    IN  EncodeInPlace(buffer, 20,
            ean_encode_into_buffer(v, EAN2_PARITY[(modulo % 4) + 1], buffer))

\* EAN5::encode_in_place: the outcomes the builds can produce (with overflow
\* checks an overflowing checksum sum panics before anything is written)
EAN5_encode_in_place(v, buffer) ==
    {EncodeInPlace(buffer, 47,
        ean_encode_into_buffer(v, EAN5_PARITY[EAN5_checksum_index(v).v + 1], buffer))}
    \cup (IF Len(buffer) >= 47 /\ EAN5_checksum_index(v).overflow
          THEN {[ret |-> "panic", buffer |-> buffer]} ELSE {})

(***************************************************************************)
(* 2-of-5 (src/src/sym/tf.rs, src/src/sym/i2of5.rs)                        *)
(***************************************************************************)
\* TF_WIDTHS, one string of five widths per digit
TF_WIDTHS ==
  << <<"N", "N", "W", "W", "N">>, <<"W", "N", "N", "N", "W">>, <<"N", "W", "N", "N", "W">>,
     <<"W", "W", "N", "N", "N">>, <<"N", "N", "W", "N", "W">>, <<"W", "N", "W", "N", "N">>,
     <<"N", "W", "W", "N", "N">>, <<"N", "N", "N", "W", "W">>, <<"W", "N", "N", "W", "N">>,
     <<"N", "W", "N", "W", "N">> >>

ITF_START == <<1, 0, 1, 0>>
ITF_STOP == <<1, 1, 0, 1>>

\* A constructor that panicked instead of returning
Panicked == [ok |-> FALSE, err |-> "panic", val |-> <<>>]

\* TF::interleaved storing the digits as parsed
TF_interleaved_NoCheckDigit(d) ==
    LET r == Parse_parse(d, 1, 256, DigitChars)
    IN  IF ~r.ok THEN {r} ELSE {Ok(ToDigits(r.val))}

\* TF::interleaved: the results the builds can produce. When a u8 accumulator
\* of modulo_10_checksum overflows, a build with overflow checks panics and a
\* build without them pushes the digit computed from the wrapped values.
TF_interleaved(d) ==
    LET r      == Parse_parse(d, 1, 256, DigitChars)
        digits == ToDigits(r.val)
        checksum_required == Len(digits) % 2 = 1
        check_digit == modulo_10_checksum(digits, FALSE)
    IN  IF ~r.ok THEN {r}
        ELSE IF checksum_required
        THEN {Ok(Append(digits, check_digit.v))}
             \cup (IF check_digit.overflow THEN {Panicked} ELSE {})
        ELSE {Ok(digits)}

\* I2OF5::new, the same statements as TF::interleaved
I2OF5_new(d) == TF_interleaved(d)

\* TF::interleave: per width pair, the bar (1) then the space (0), three
\* modules when wide
TF_interleave(bars, spaces) ==
    IF bars >= Len(TF_WIDTHS) \/ spaces >= Len(TF_WIDTHS)
    THEN Panic
    ELSE LET bwidths == TF_WIDTHS[bars + 1]
             swidths == TF_WIDTHS[spaces + 1]
         IN  Bits(Flatten([k \in 1..5 |->
                 (IF bwidths[k] = "W" THEN <<1, 1, 1>> ELSE <<1>>)
                 \o (IF swidths[k] = "W" THEN <<0, 0, 0>> ELSE <<0>>)]))

\* TF::itf_payload: chunks(2), then c[0] and c[1] of every chunk; the last
\* chunk of an odd number of digits has no c[1]
TF_itf_payload(v) ==
    LET n      == (Len(v) + 1) \div 2
        weaves == [k \in 1..n |->
                      IF 2 * k > Len(v) THEN Panic
                      ELSE TF_interleave(v[2 * k - 1], v[2 * k])]
    IN  IF \E k \in 1..n : weaves[k].panic
        THEN Panic
        ELSE Bits(join_iters([k \in 1..n |-> weaves[k].bits]))

\* TF::encode of TF::Interleaved
TF_encode(v) ==
    LET p == TF_itf_payload(v)
    IN  IF p.panic THEN Panic
        ELSE Bits(join_slices(<<ITF_START, p.bits, ITF_STOP>>))

(***************************************************************************)
(* Inputs                                                                  *)
(***************************************************************************)
\* "5512345" (ean8.rs), "72527273070", "725272730705", "725272730706" (upca.rs),
\* "51234" (ean_supp.rs)
EAN8TestInputs == { <<53, 53, 49, 50, 51, 52, 53>> }
UPCATestInputs ==
    { <<55, 50, 53, 50, 55, 50, 55, 51, 48, 55, 48>>,
      <<55, 50, 53, 50, 55, 50, 55, 51, 48, 55, 48, 53>>,
      <<55, 50, 53, 50, 55, 50, 55, 51, 48, 55, 48, 54>> }
EAN5TestInputs == { <<53, 49, 50, 51, 52>> }
\* "AT", "123" (ean_supp.rs)
EAN2TestInputs == { <<65, 84>>, <<49, 50, 51>> }

EAN13Inputs == InputsOfLens(11..14, HeadBytes, TailBytes)
EAN8Inputs  == InputsOfLens(6..9, HeadBytes, TailBytes) \cup EAN8TestInputs
UPCAInputs  == InputsOfLens(10..13, HeadBytes, TailBytes) \cup UPCATestInputs
EAN2Inputs  == InputsOfLens(1..3, HeadBytes, TailBytes) \cup EAN2TestInputs
EAN5Inputs  == InputsOfLens(4..6, HeadBytes, TailBytes) \cup EAN5TestInputs

\* '1' and '[' ; '0', '-', ':' and 'a'
ValidateHeadBytes == {49, 91}
ValidateTailBytes == {48, 45, 58, 97}

\* Lengths at both ends of SIZE
ValidateLens == (0..MaxTail) \cup ((SIZE_end - 1)..(SIZE_end + 1))

ValidateInputs == InputsOfLens(ValidateLens, ValidateHeadBytes, ValidateTailBytes)

\* "1234", "983RD512" (code39.rs)
Code39TestInputs == { <<49, 50, 51, 52>>, <<57, 56, 51, 82, 68, 53, 49, 50>> }
\* "TEST93", "FLAM", "99", "1111111111111111111111" (code93.rs)
Code93TestInputs ==
    { <<84, 69, 83, 84, 57, 51>>, <<70, 76, 65, 77>>, <<57, 57>>, [i \in 1..22 |-> 49] }
\* "123-45", "666", "12-9", "1234-5678-4321" (code11.rs)
Code11TestInputs ==
    { <<49, 50, 51, 45, 52, 53>>, <<54, 54, 54>>, <<49, 50, 45, 57>>,
      <<49, 50, 51, 52, 45, 53, 54, 55, 56, 45, 52, 51, 50, 49>> }
\* "A1234B", "A40156B" (codabar.rs)
CodabarTestInputs ==
    { <<65, 49, 50, 51, 52, 66>>, <<65, 52, 48, 49, 53, 54, 66>> }

Code39Inputs == ValidateInputs \cup Code39TestInputs
Code93Inputs == ValidateInputs \cup Code93TestInputs
\* also the lengths on both sides of the K checksum's threshold
Code11Inputs ==
    ValidateInputs \cup Code11TestInputs
    \cup InputsOfLens(Code11_K_MIN_LEN..(Code11_K_MIN_LEN + 1), {49, 57}, ValidateTailBytes)
\* also 'A' or '+', then MaxTail of '$', '+', '.', 'D'
CodabarInputs ==
    ValidateInputs \cup CodabarTestInputs
    \cup InputsOfLen(MaxTail + 1, {65, 43}, {36, 43, 46, 68})

\* "1234567", "12345679", "1234er123412" (tf.rs); 13 and 15 times '9'
TFTestInputs ==
    { <<49, 50, 51, 52, 53, 54, 55>>, <<49, 50, 51, 52, 53, 54, 55, 57>>,
      <<49, 50, 51, 52, 101, 114, 49, 50, 51, 52, 49, 50>>,
      [i \in 1..13 |-> 57], [i \in 1..15 |-> 57] }
\* '1' or '9', then the reference digits, then MaxTail of '0', '9', ':'
TFInputs ==
    InputsOfLens((0..(MaxTail + 2)) \cup {18, 19} \cup (254..257),
                 {49, 57}, {48, 57, 58})
    \cup TFTestInputs

\* A caller's buffer is up to this much shorter or longer than required
BufferSlack == 1
\* and is filled with one of these bytes
BufferFill == {0, 7}

\* The buffers handed to encode_in_place when sum modules are required
Buffers(sum) ==
    { [i \in 1..n |-> f] :
        n \in {m \in (sum - BufferSlack)..(sum + BufferSlack) : m >= 0},
        f \in BufferFill }

(***************************************************************************)
(* The Barcode trait's provided encode (src/src/lib.rs)                    *)
(***************************************************************************)
\* self.encode_in_place(buffer) of the implementor called name
Barcode_encode_in_place(name, v, buffer) ==
    CASE name = "Code39"  -> {Code39_encode_in_place(v, buffer)}
      [] name = "Code93"  -> {Code93_encode_in_place(v, buffer)}
      [] name = "Code11"  -> {Code11_encode_in_place(v, buffer)}
      [] name = "Codabar" -> {Codabar_encode_in_place(v, buffer)}
      [] name = "EAN2"    -> {EAN2_encode_in_place(v, buffer)}
      [] name = "EAN5"    -> EAN5_encode_in_place(v, buffer)

\* Barcode::encode as the trait provides it: let mut buffer = Vec::new();
\* self.encode_in_place(&mut buffer); buffer
Barcode_encode(name, v) ==
    LET buffer == <<>>
    IN  { IF r.ret = "panic" THEN Panic ELSE Bits(r.buffer) :
            r \in Barcode_encode_in_place(name, v, buffer) }

(***************************************************************************)
(* The state machine                                                       *)
(***************************************************************************)
Init ==
    /\ pc = "idle"
    /\ sym = "none"
    /\ data = <<>>
    /\ res = NoResult
    /\ out = NoOutput
    /\ units = <<>>
    /\ char_set = "None"
    /\ carry = <<>>
    /\ idx = 1
    /\ buf = <<>>
    /\ inplace = NoReturn

\* A constructor that returns r for the input d in one step.
Construct(name, d, r) ==
    /\ data' = d
    /\ res' = r
    /\ sym' = name
    /\ pc' = "constructed"
    /\ UNCHANGED <<out, buf, inplace, units, char_set, carry, idx>>

\* encode() of the constructed value.
Encode(name, outcomes) ==
    /\ sym = name /\ res.ok
    /\ out' \in outcomes
    /\ pc' = "encoded"
    /\ UNCHANGED <<sym, data, res, units, char_set, carry, idx, buf, inplace>>

NewEAN13 ==
    /\ pc = "idle"
    /\ \E d \in EAN13Inputs : Construct("EAN13", d, EAN13_new(d))

NewEAN8 ==
    /\ pc = "idle"
    /\ \E d \in EAN8Inputs : Construct("EAN8", d, EAN8_new(d))

NewUPCA ==
    /\ pc = "idle"
    /\ \E d \in UPCAInputs : Construct("UPCA", d, UPCA_new(d))

NewEAN2 ==
    /\ pc = "idle"
    /\ \E d \in EAN2Inputs : Construct("EAN2", d, EAN2_new(d))

NewEAN5 ==
    /\ pc = "idle"
    /\ \E d \in EAN5Inputs : Construct("EAN5", d, EAN5_new(d))

NewCode39 ==
    /\ pc = "idle"
    /\ \E d \in Code39Inputs : Construct("Code39", d, Code39_new(d))

NewCode93 ==
    /\ pc = "idle"
    /\ \E d \in Code93Inputs : Construct("Code93", d, Code93_new(d))

NewCode11 ==
    /\ pc = "idle"
    /\ \E d \in Code11Inputs : Construct("Code11", d, Code11_new(d))

NewCodabar ==
    /\ pc = "idle"
    /\ \E d \in CodabarInputs : Construct("Codabar", d, Codabar_new(d))


EncodeEAN13 ==
    /\ pc = "constructed"
    /\ Encode("EAN13", {EAN13_encode(res.val)})

EncodeEAN8 ==
    /\ pc = "constructed"
    /\ Encode("EAN8", {EAN8_encode(res.val)})

EncodeUPCA ==
    /\ pc = "constructed"
    /\ Encode("UPCA", {UPCA_encode(res.val)})

EncodeEAN2 ==
    /\ pc = "constructed"
    /\ Encode("EAN2", {EAN2_encode(res.val)})

EncodeEAN5 ==
    /\ pc = "constructed"
    /\ Encode("EAN5", EAN5_encode(res.val))

EncodeCode128 ==
    /\ pc = "constructed"
    /\ Encode("Code128", {Code128_encode(res.val)})

NewCode39WithChecksum ==
    /\ pc = "idle"
    /\ \E d \in Code39Inputs : Construct("Code39", d, Code39_with_checksum(d))

EncodeCode39 ==
    /\ pc = "constructed" /\ sym = "Code39" /\ res.ok
    /\ Encode("Code39", {Code39_encode(res.val)})

EncodeCode93 ==
    /\ pc = "constructed" /\ sym = "Code93" /\ res.ok
    /\ Encode("Code93", {Code93_encode(res.val)})

EncodeCode11 ==
    /\ pc = "constructed" /\ sym = "Code11" /\ res.ok
    /\ Encode("Code11", {Code11_encode(res.val)})

EncodeCodabar ==
    /\ pc = "constructed" /\ sym = "Codabar" /\ res.ok
    /\ Encode("Codabar", {Codabar_encode(res.val)})

\* encode_in_place(b) of the constructed value.
InPlace(b, outcomes) ==
    /\ buf' = b
    /\ inplace' \in outcomes
    /\ pc' = "encoded_in_place"
    /\ UNCHANGED <<sym, data, res, out, units, char_set, carry, idx>>

InPlaceCode39 ==
    /\ pc = "constructed" /\ sym = "Code39" /\ res.ok
    /\ \E b \in Buffers(Code39_calc_sum(res.val)) :
           InPlace(b, {Code39_encode_in_place(res.val, b)})

InPlaceCode93 ==
    /\ pc = "constructed" /\ sym = "Code93" /\ res.ok
    /\ \E b \in Buffers(Code93_calc_sum(res.val)) :
           InPlace(b, {Code93_encode_in_place(res.val, b)})

InPlaceCode11 ==
    /\ pc = "constructed" /\ sym = "Code11" /\ res.ok
    /\ \E b \in Buffers(Code11_calc_sum_and_checksums(res.val).sum) :
           InPlace(b, {Code11_encode_in_place(res.val, b)})

InPlaceCodabar ==
    /\ pc = "constructed" /\ sym = "Codabar" /\ res.ok
    /\ \E b \in Buffers(Codabar_get_sum(res.val).sum) :
           InPlace(b, {Codabar_encode_in_place(res.val, b)})

InPlaceEAN2 ==
    /\ pc = "constructed" /\ sym = "EAN2" /\ res.ok
    /\ \E b \in Buffers(20) : InPlace(b, {EAN2_encode_in_place(res.val, b)})

InPlaceEAN5 ==
    /\ pc = "constructed" /\ sym = "EAN5" /\ res.ok
    /\ \E b \in Buffers(47) : InPlace(b, EAN5_encode_in_place(res.val, b))

NewTFInterleaved ==
    /\ pc = "idle"
    /\ \E d \in TFInputs : \E r \in TF_interleaved(d) : Construct("TF", d, r)

NewI2OF5 ==
    /\ pc = "idle"
    /\ \E d \in TFInputs : \E r \in I2OF5_new(d) : Construct("I2OF5", d, r)

EncodeTF ==
    /\ pc = "constructed"
    /\ Encode("TF", {TF_encode(res.val)})

\* The provided Barcode::encode called on a value whose type implements
\* encode_in_place and leaves encode to the trait.
EncodeProvided ==
    /\ pc = "constructed" /\ sym \in {"Code39", "Code93", "Code11", "Codabar", "EAN2", "EAN5"}
    /\ res.ok
    /\ out' \in Barcode_encode(sym, res.val)
    /\ pc' = "encoded_provided"
    /\ UNCHANGED <<sym, data, res, units, char_set, carry, idx, buf, inplace>>

Next ==
    \/ Code128_new
    \/ Parse_start
    \/ Parse_switch
    \/ Parse_digit
    \/ Parse_other
    \/ Parse_end
    \/ EncodeCode128
    \/ NewEAN13
    \/ EncodeEAN13
    \/ NewEAN8
    \/ EncodeEAN8
    \/ NewUPCA
    \/ EncodeUPCA
    \/ NewEAN2
    \/ EncodeEAN2
    \/ NewEAN5
    \/ EncodeEAN5
    \/ NewCode39
    \/ NewCode93
    \/ NewCode11
    \/ NewCodabar
    \/ NewCode39WithChecksum
    \/ EncodeCode39
    \/ EncodeCode93
    \/ EncodeCode11
    \/ EncodeCodabar
    \/ InPlaceCode39
    \/ InPlaceCode93
    \/ InPlaceCode11
    \/ InPlaceCodabar
    \/ InPlaceEAN2
    \/ InPlaceEAN5
    \/ NewTFInterleaved
    \/ NewI2OF5
    \/ EncodeTF
    \/ EncodeProvided

Spec == Init /\ [][Next]_vars

(***************************************************************************)
(* The encode() vectors of the repository's tests, and the model's         *)
(* agreement with them.                                                    *)
(***************************************************************************)
TestVectors ==
    {
      [sym |-> "Code128",
       data |-> <<192, 72, 69, 76, 76, 79>>,
       bits |-> <<1, 1, 0, 1, 0, 0, 0, 0, 1, 0, 0, 1, 1, 0, 0, 0, 1, 0, 1, 0, 0, 0, 1, 0, 0, 0, 1, 1, 0, 1, 0, 0, 0, 1, 0, 0, 0, 1, 1, 0, 1, 1, 1, 0, 1, 0, 0, 0, 1, 1, 0, 1, 1, 1, 0, 1, 0, 0, 0, 1, 1, 1, 0, 1, 1, 0, 1, 1, 0, 1, 0, 0, 0, 1, 0, 0, 0, 1, 1, 0, 0, 0, 1, 1, 1, 0, 1, 0, 1, 1>>],
      [sym |-> "Code128",
       data |-> <<192, 88, 89, 262, 50, 49, 57, 57>>,
       bits |-> <<1, 1, 0, 1, 0, 0, 0, 0, 1, 0, 0, 1, 1, 1, 0, 0, 0, 1, 0, 1, 1, 0, 1, 1, 1, 0, 1, 1, 0, 1, 0, 0, 0, 1, 0, 1, 1, 1, 0, 1, 1, 1, 1, 0, 1, 1, 0, 1, 1, 1, 0, 0, 1, 0, 0, 1, 0, 1, 1, 1, 0, 1, 1, 1, 1, 0, 1, 0, 0, 1, 1, 1, 0, 1, 1, 0, 0, 1, 1, 0, 0, 0, 1, 1, 1, 0, 1, 0, 1, 1>>],
      [sym |-> "Code128",
       data |-> <<385, 120, 121, 90, 192, 49, 57, 57, 33, 42, 49>>,
       bits |-> <<1, 1, 0, 1, 0, 0, 1, 0, 0, 0, 0, 1, 1, 1, 1, 0, 0, 1, 0, 0, 1, 0, 1, 1, 0, 1, 1, 0, 1, 1, 1, 1, 0, 1, 1, 1, 0, 1, 1, 0, 0, 0, 1, 0, 1, 1, 1, 0, 1, 0, 1, 1, 1, 1, 0, 1, 0, 0, 1, 1, 1, 0, 0, 1, 1, 0, 1, 1, 1, 0, 0, 1, 0, 1, 1, 0, 0, 1, 1, 1, 0, 0, 1, 0, 1, 1, 0, 0, 1, 1, 0, 0, 1, 1, 0, 1, 1, 0, 0, 1, 1, 0, 0, 1, 0, 0, 0, 1, 0, 0, 1, 0, 0, 1, 1, 1, 0, 0, 1, 1, 0, 1, 0, 0, 1, 0, 1, 1, 1, 1, 0, 0, 1, 1, 0, 0, 0, 1, 1, 1, 0, 1, 0, 1, 1>>],
      [sym |-> "EAN13",
       data |-> <<55, 53, 48, 49, 48, 51, 49, 51, 49, 49, 51, 48>>,
       bits |-> <<1, 0, 1, 0, 1, 1, 0, 0, 0, 1, 0, 1, 0, 0, 1, 1, 1, 0, 0, 1, 1, 0, 0, 1, 0, 1, 0, 0, 1, 1, 1, 0, 1, 1, 1, 1, 0, 1, 0, 1, 1, 0, 0, 1, 1, 0, 1, 0, 1, 0, 1, 0, 0, 0, 0, 1, 0, 1, 1, 0, 0, 1, 1, 0, 1, 1, 0, 0, 1, 1, 0, 1, 0, 0, 0, 0, 1, 0, 1, 1, 1, 0, 0, 1, 0, 1, 1, 1, 0, 1, 0, 0, 1, 0, 1>>],
      [sym |-> "EAN8",
       data |-> <<53, 53, 49, 50, 51, 52, 53>>,
       bits |-> <<1, 0, 1, 0, 1, 1, 0, 0, 0, 1, 0, 1, 1, 0, 0, 0, 1, 0, 0, 1, 1, 0, 0, 1, 0, 0, 1, 0, 0, 1, 1, 0, 1, 0, 1, 0, 1, 0, 0, 0, 0, 1, 0, 1, 0, 1, 1, 1, 0, 0, 1, 0, 0, 1, 1, 1, 0, 1, 0, 0, 0, 1, 0, 0, 1, 0, 1>>],
      [sym |-> "UPCA",
       data |-> <<55, 50, 53, 50, 55, 50, 55, 51, 48, 55, 48>>,
       bits |-> <<1, 0, 1, 0, 1, 1, 1, 0, 1, 1, 0, 0, 1, 0, 0, 1, 1, 0, 1, 1, 0, 0, 0, 1, 0, 0, 1, 0, 0, 1, 1, 0, 1, 1, 1, 0, 1, 1, 0, 0, 1, 0, 0, 1, 1, 0, 1, 0, 1, 0, 1, 0, 0, 0, 1, 0, 0, 1, 0, 0, 0, 0, 1, 0, 1, 1, 1, 0, 0, 1, 0, 1, 0, 0, 0, 1, 0, 0, 1, 1, 1, 0, 0, 1, 0, 1, 0, 1, 0, 0, 0, 0, 1, 0, 1>>],
      [sym |-> "EAN2",
       data |-> <<51, 52>>,
       bits |-> <<1, 0, 1, 1, 0, 1, 0, 0, 0, 0, 1, 0, 1, 0, 1, 0, 0, 0, 1, 1>>],
      [sym |-> "EAN5",
       data |-> <<53, 49, 50, 51, 52>>,
       bits |-> <<1, 0, 1, 1, 0, 1, 1, 0, 0, 0, 1, 0, 1, 0, 0, 1, 1, 0, 0, 1, 0, 1, 0, 0, 1, 1, 0, 1, 1, 0, 1, 0, 1, 1, 1, 1, 0, 1, 0, 1, 0, 0, 1, 1, 1, 0, 1>>]
    }

\* Test vectors of code39.rs, code93.rs, code11.rs and codabar.rs:
\* code39_encode, code39_encode_with_checksum, code93_encode,
\* code11_encode_less_than_10_chars, code11_encode_more_than_10_chars, codabar_encode
TestVectorsBytes ==
    {
      [sym |-> "Code39", checksum |-> FALSE,
       data |-> <<49, 50, 51, 52>>,
       bits |-> <<1, 0, 0, 1, 0, 1, 1, 0, 1, 1, 0, 1, 0, 1, 1, 0, 1, 0, 0, 1, 0, 1, 0, 1, 1, 0, 1, 0, 1, 1, 0, 0, 1, 0, 1, 0, 1, 1, 0, 1, 1, 0, 1, 1, 0, 0, 1, 0, 1, 0, 1, 0, 1, 0, 1, 0, 0, 1, 1, 0, 1, 0, 1, 1, 0, 1, 0, 0, 1, 0, 1, 1, 0, 1, 1, 0, 1>>],
      [sym |-> "Code39", checksum |-> FALSE,
       data |-> <<57, 56, 51, 82, 68, 53, 49, 50>>,
       bits |-> <<1, 0, 0, 1, 0, 1, 1, 0, 1, 1, 0, 1, 0, 1, 0, 1, 1, 0, 0, 1, 0, 1, 1, 0, 1, 0, 1, 1, 0, 1, 0, 0, 1, 0, 1, 1, 0, 1, 0, 1, 1, 0, 1, 1, 0, 0, 1, 0, 1, 0, 1, 0, 1, 1, 0, 1, 0, 1, 0, 1, 1, 0, 0, 1, 0, 1, 0, 1, 0, 1, 1, 0, 0, 1, 0, 1, 1, 0, 1, 1, 0, 1, 0, 0, 1, 1, 0, 1, 0, 1, 0, 1, 1, 0, 1, 0, 0, 1, 0, 1, 0, 1, 1, 0, 1, 0, 1, 1, 0, 0, 1, 0, 1, 0, 1, 1, 0, 1, 0, 0, 1, 0, 1, 1, 0, 1, 1, 0, 1>>],
      [sym |-> "Code39", checksum |-> TRUE,
       data |-> <<49, 50, 51, 52>>,
       bits |-> <<1, 0, 0, 1, 0, 1, 1, 0, 1, 1, 0, 1, 0, 1, 1, 0, 1, 0, 0, 1, 0, 1, 0, 1, 1, 0, 1, 0, 1, 1, 0, 0, 1, 0, 1, 0, 1, 1, 0, 1, 1, 0, 1, 1, 0, 0, 1, 0, 1, 0, 1, 0, 1, 0, 1, 0, 0, 1, 1, 0, 1, 0, 1, 1, 0, 1, 1, 0, 1, 0, 1, 0, 0, 1, 0, 1, 1, 0, 1, 0, 0, 1, 0, 1, 1, 0, 1, 1, 0, 1>>],
      [sym |-> "Code39", checksum |-> TRUE,
       data |-> <<57, 56, 51, 82, 68, 53, 49, 50>>,
       bits |-> <<1, 0, 0, 1, 0, 1, 1, 0, 1, 1, 0, 1, 0, 1, 0, 1, 1, 0, 0, 1, 0, 1, 1, 0, 1, 0, 1, 1, 0, 1, 0, 0, 1, 0, 1, 1, 0, 1, 0, 1, 1, 0, 1, 1, 0, 0, 1, 0, 1, 0, 1, 0, 1, 1, 0, 1, 0, 1, 0, 1, 1, 0, 0, 1, 0, 1, 0, 1, 0, 1, 1, 0, 0, 1, 0, 1, 1, 0, 1, 1, 0, 1, 0, 0, 1, 1, 0, 1, 0, 1, 0, 1, 1, 0, 1, 0, 0, 1, 0, 1, 0, 1, 1, 0, 1, 0, 1, 1, 0, 0, 1, 0, 1, 0, 1, 1, 0, 1, 0, 1, 1, 0, 1, 1, 0, 1, 0, 0, 1, 0, 1, 0, 0, 1, 0, 1, 1, 0, 1, 1, 0, 1>>],
      [sym |-> "Code93", checksum |-> FALSE,
       data |-> <<70, 76, 65, 77>>,
       bits |-> <<1, 0, 1, 0, 1, 1, 1, 1, 0, 1, 1, 0, 0, 0, 1, 0, 1, 0, 1, 0, 1, 0, 1, 1, 0, 0, 0, 1, 1, 0, 1, 0, 1, 0, 0, 0, 1, 0, 1, 0, 0, 1, 1, 0, 0, 1, 0, 0, 1, 0, 1, 1, 0, 0, 1, 0, 1, 0, 0, 1, 1, 0, 0, 1, 0, 1, 0, 1, 1, 1, 1, 0, 1>>],
      [sym |-> "Code93", checksum |-> FALSE,
       data |-> <<57, 57>>,
       bits |-> <<1, 0, 1, 0, 1, 1, 1, 1, 0, 1, 0, 0, 0, 0, 1, 0, 1, 0, 1, 0, 0, 0, 0, 1, 0, 1, 0, 1, 1, 0, 1, 1, 0, 0, 1, 0, 1, 0, 0, 0, 1, 0, 1, 1, 0, 1, 0, 1, 0, 1, 1, 1, 1, 0, 1>>],
      [sym |-> "Code93", checksum |-> FALSE,
       data |-> <<49, 49, 49, 49, 49, 49, 49, 49, 49, 49, 49, 49, 49, 49, 49, 49, 49, 49, 49, 49, 49, 49>>,
       bits |-> <<1, 0, 1, 0, 1, 1, 1, 1, 0, 1, 0, 1, 0, 0, 1, 0, 0, 0, 1, 0, 1, 0, 0, 1, 0, 0, 0, 1, 0, 1, 0, 0, 1, 0, 0, 0, 1, 0, 1, 0, 0, 1, 0, 0, 0, 1, 0, 1, 0, 0, 1, 0, 0, 0, 1, 0, 1, 0, 0, 1, 0, 0, 0, 1, 0, 1, 0, 0, 1, 0, 0, 0, 1, 0, 1, 0, 0, 1, 0, 0, 0, 1, 0, 1, 0, 0, 1, 0, 0, 0, 1, 0, 1, 0, 0, 1, 0, 0, 0, 1, 0, 1, 0, 0, 1, 0, 0, 0, 1, 0, 1, 0, 0, 1, 0, 0, 0, 1, 0, 1, 0, 0, 1, 0, 0, 0, 1, 0, 1, 0, 0, 1, 0, 0, 0, 1, 0, 1, 0, 0, 1, 0, 0, 0, 1, 0, 1, 0, 0, 1, 0, 0, 0, 1, 0, 1, 0, 0, 1, 0, 0, 0, 1, 0, 1, 0, 0, 1, 0, 0, 0, 1, 0, 1, 0, 0, 1, 0, 0, 0, 1, 0, 1, 0, 0, 1, 0, 0, 0, 1, 0, 1, 0, 0, 1, 0, 0, 0, 1, 0, 1, 0, 0, 1, 0, 0, 0, 1, 0, 0, 0, 1, 0, 1, 1, 0, 1, 1, 1, 0, 0, 1, 0, 1, 0, 1, 0, 1, 0, 1, 1, 1, 1, 0, 1>>],
      [sym |-> "Code93", checksum |-> FALSE,
       data |-> <<84, 69, 83, 84, 57, 51>>,
       bits |-> <<1, 0, 1, 0, 1, 1, 1, 1, 0, 1, 1, 0, 1, 0, 0, 1, 1, 0, 1, 1, 0, 0, 1, 0, 0, 1, 0, 1, 1, 0, 1, 0, 1, 1, 0, 0, 1, 1, 0, 1, 0, 0, 1, 1, 0, 1, 0, 0, 0, 0, 1, 0, 1, 0, 1, 0, 1, 0, 0, 0, 0, 1, 0, 1, 0, 1, 1, 1, 0, 1, 1, 0, 1, 0, 0, 1, 0, 0, 0, 1, 0, 1, 0, 1, 0, 1, 1, 1, 1, 0, 1>>],
      [sym |-> "Code11", checksum |-> FALSE,
       data |-> <<54, 54, 54>>,
       bits |-> <<1, 0, 1, 1, 0, 0, 1, 0, 1, 0, 0, 1, 1, 0, 1, 0, 1, 0, 0, 1, 1, 0, 1, 0, 1, 0, 0, 1, 1, 0, 1, 0, 1, 1, 0, 0, 1, 0, 1, 0, 1, 0, 1, 1, 0, 0, 1>>],
      [sym |-> "Code11", checksum |-> FALSE,
       data |-> <<49, 50, 45, 57>>,
       bits |-> <<1, 0, 1, 1, 0, 0, 1, 0, 1, 1, 0, 1, 0, 1, 1, 0, 1, 0, 0, 1, 0, 1, 1, 0, 1, 0, 1, 1, 0, 1, 0, 1, 1, 0, 1, 0, 1, 0, 1, 0, 0, 1, 1, 0, 1, 0, 1, 0, 1, 1, 0, 0, 1>>],
      [sym |-> "Code11", checksum |-> FALSE,
       data |-> <<49, 50, 51, 52, 45, 53, 54, 55, 56, 45, 52, 51, 50, 49>>,
       bits |-> <<1, 0, 1, 1, 0, 0, 1, 0, 1, 1, 0, 1, 0, 1, 1, 0, 1, 0, 0, 1, 0, 1, 1, 0, 1, 1, 0, 0, 1, 0, 1, 0, 1, 0, 1, 1, 0, 1, 1, 0, 1, 0, 1, 1, 0, 1, 0, 1, 1, 0, 1, 1, 0, 1, 0, 1, 0, 0, 1, 1, 0, 1, 0, 1, 0, 1, 0, 0, 1, 1, 0, 1, 1, 0, 1, 0, 0, 1, 0, 1, 0, 1, 1, 0, 1, 0, 1, 0, 1, 1, 0, 1, 1, 0, 1, 1, 0, 0, 1, 0, 1, 0, 1, 0, 0, 1, 0, 1, 1, 0, 1, 1, 0, 1, 0, 1, 1, 0, 1, 1, 0, 1, 1, 0, 1, 0, 1, 0, 0, 1, 1, 0, 1, 0, 1, 0, 1, 1, 0, 0, 1>>],
      [sym |-> "Codabar", checksum |-> FALSE,
       data |-> <<65, 49, 50, 51, 52, 66>>,
       bits |-> <<1, 0, 1, 1, 0, 0, 1, 0, 0, 1, 0, 1, 0, 1, 0, 1, 1, 0, 0, 1, 0, 1, 0, 1, 0, 0, 1, 0, 1, 1, 0, 1, 1, 0, 0, 1, 0, 1, 0, 1, 0, 1, 0, 1, 1, 0, 1, 0, 0, 1, 0, 1, 0, 1, 0, 0, 1, 0, 0, 1, 1>>],
      [sym |-> "Codabar", checksum |-> FALSE,
       data |-> <<65, 52, 48, 49, 53, 54, 66>>,
       bits |-> <<1, 0, 1, 1, 0, 0, 1, 0, 0, 1, 0, 1, 0, 1, 1, 0, 1, 0, 0, 1, 0, 1, 0, 1, 0, 1, 0, 0, 1, 1, 0, 1, 0, 1, 0, 1, 1, 0, 0, 1, 0, 1, 1, 0, 1, 0, 1, 0, 0, 1, 0, 1, 0, 0, 1, 0, 1, 0, 1, 1, 0, 1, 0, 1, 0, 0, 1, 0, 0, 1, 1>>]
    }

\* The constructor results the tests assert for invalid input:
\* invalid_checksum_upca, invalid_data_ean2, invalid_len_ean2
TestErrors ==
    { [sym |-> "UPCA", data |-> <<55, 50, 53, 50, 55, 50, 55, 51, 48, 55, 48, 53>>, err |-> "Checksum"],
      [sym |-> "EAN2", data |-> <<65, 84>>, err |-> "Character"],
      [sym |-> "EAN2", data |-> <<49, 50, 51>>, err |-> "Length"] }

ModelAgreesWithTests ==
    /\ \A t \in TestVectors :
          (pc = "encoded" /\ sym = t.sym /\ data = t.data) => out = Bits(t.bits)
    /\ \A t \in TestErrors :
          (pc = "constructed" /\ sym = t.sym /\ data = t.data) => res = Err(t.err)
    /\ \A t \in TestVectorsBytes :
          (/\ pc = "encoded" /\ sym = t.sym /\ data = t.data
           /\ sym = "Code39" => res.val.checksum = t.checksum) => out = Bits(t.bits)

(***************************************************************************)
(* Properties                                                              *)
(***************************************************************************)
Constructed ==
    pc \in {"constructed", "encoded", "encoded_in_place", "encoded_provided"}

AllDigits(s) == \A i \in 1..Len(s) : IsDigit(s[i])

\* C1: for every value a constructor returned as Ok, encode() completes and
\* returns a module sequence; no table lookup indexes out of bounds and no
\* panic is reached during encoding.
C1_EncodeNeverPanics == pc = "encoded" => ~out.panic

\* C2: for Code39, Code93, Code11 and Codabar (shared validate, SIZE = 1..256),
\* new(data) returns Err(Error::Length) if and only if data.len() lies outside
\* 1..=255, whatever characters the data contains.
C2_LengthErrorIffOutsideRange ==
    (Constructed /\ sym \in {"Code39", "Code93", "Code11", "Codabar"})
        => ((res = Err("Length")) <=> (Len(data) \notin 1..255))

\* C3: EAN2::new on any 2-byte input and EAN5::new on any 5-byte input return
\* Err(Error::Character) whenever at least one byte is not an ASCII digit
\* (below '0' or above '9'), and Ok only when every byte is a digit.
C3_SupplementCharacterError ==
    (Constructed /\ ((sym = "EAN2" /\ Len(data) = 2) \/ (sym = "EAN5" /\ Len(data) = 5)))
        => IF AllDigits(data) THEN res.ok ELSE res = Err("Character")

\* C4: Code128::new returns Err(Error::Character) for every input of at least
\* 2 bytes whose first character is not one of the three set-switch characters;
\* parsing never gets past that first character.
C4_NoInitialSwitchIsCharacterError ==
    (sym = "Code128" /\ StrLen(data) >= 2 /\ data[1] \notin SwitchChars)
        => /\ pc = "parsing" => (idx = 1 /\ units = <<>>)
           /\ Constructed => res = Err("Character")

\* C4 witness: new has returned for an input of two chars that starts with a
\* char that is no set switch.
C4_Witness ==
    /\ sym = "Code128" /\ pc = "constructed"
    /\ Len(data) >= 2 /\ data[1] \notin SwitchChars

\* The parse of the input stopped with a digit held as the set-C carry.
CarryLeftPending == sym = "Code128" /\ Constructed /\ carry # <<>>

\* The unit of set C that pairs the digits n and d.
PairUnit(n, d) == [set |-> "C", n |-> 10 * (n - 48) + (d - 48)]

\* C5: Code128::new returns Err(Error::Character), and yields no units at all,
\* whenever a digit held as the set-C carry is left unpaired (the input ends, or
\* a set switch arrives, while a digit is pending); a pending digit is never
\* padded or dropped: it leaves the carry only paired with the next digit.
C5_UnpairedCarryIsCharacterError ==
    /\ [](CarryLeftPending => (res = Err("Character") /\ res.val = <<>>))
    /\ [][carry # <<>> =>
            \/ carry' = carry
            \/ /\ carry' = <<>>
               /\ pc = "parsing" /\ IsDigit(data[idx])
               /\ units' = Append(units, PairUnit(carry[1], data[idx]))]_vars

\* C5 witness: new has returned at the end of an input whose last digit was
\* still pending.
C5_Witness == CarryLeftPending /\ idx > Len(data)

\* The 11 modules of out that start at 0-based offset o.
ModulesAt(o) == SubSeq(out.bits, o + 1, o + 11)

Code128Encoded == sym = "Code128" /\ pc = "encoded"

\* C6 as stated: the 11-module encoding of every unit, each followed by a
\* 1-module separator; then the checksum, the stop and the termination pattern.
C6_Original ==
    Code128Encoded =>
        LET n == Len(res.val)
        IN  /\ Len(out.bits) = 12 * n + 24
            /\ \A k \in 1..n :
                 ModulesAt(12 * (k - 1)) = Code128_CHARS[res.val[k].n + 1][2]
            /\ ModulesAt(12 * n) = Code128_CHARS[Code128_checksum_value(res.val) + 1][2]
            /\ ModulesAt(12 * n + 11) = STOP
            /\ SubSeq(out.bits, 12 * n + 23, 12 * n + 24) = TERM

\* C6 (amended): Code128::encode returns, in this order, the 11-module encoding
\* of every unit with nothing between them, the 11-module encoding of the
\* modulo-103 checksum, the 11-module stop pattern and the 2-module
\* termination pattern: 11 * (units + 2) + 2 modules.
C6_EncodeLayout ==
    Code128Encoded =>
        LET n == Len(res.val)
        IN  /\ ~out.panic
            /\ Len(out.bits) = 11 * n + 24
            /\ \A k \in 1..n :
                 ModulesAt(11 * (k - 1)) = Code128_CHARS[res.val[k].n + 1][2]
            /\ ModulesAt(11 * n) = Code128_CHARS[Code128_checksum_value(res.val) + 1][2]
            /\ ModulesAt(11 * n + 11) = STOP
            /\ SubSeq(out.bits, 11 * n + 23, 11 * n + 24) = TERM

\* C6 witness: an encoded value of the start unit and two more units.
C6_Witness == Code128Encoded /\ Len(res.val) >= 3

\* Sum over the units from the k-th on (k counted from 1) of
\* (position - off) * index.
RECURSIVE WeightedFrom(_, _, _)
WeightedFrom(us, k, off) ==
    IF k > Len(us) THEN 0 ELSE (k - off) * us[k].n + WeightedFrom(us, k + 1, off)

\* C7 as stated: the checksum is (sum of index * weight) mod 103 with weight 1
\* for the first unit and the 1-based position for every later unit.
C7_Original ==
    (sym = "Code128" /\ Constructed /\ res.ok) =>
        Code128_checksum_value(res.val)
            = (res.val[1].n + WeightedFrom(res.val, 2, 0)) % 103

\* C7 (amended): the checksum value is (sum of index * weight) mod 103, where
\* the first (start) unit has weight 1 and every later unit has the number of
\* units before it as weight (its 1-based position minus one: 1 for the unit
\* right after the start unit); encode emits the table encoding at that value.
C7_ChecksumWeights ==
    (sym = "Code128" /\ Constructed /\ res.ok) =>
        LET v == (res.val[1].n + WeightedFrom(res.val, 2, 1)) % 103
        IN  /\ Code128_checksum_value(res.val) = v
            /\ pc = "encoded" => ModulesAt(11 * Len(res.val)) = Code128_CHARS[v + 1][2]

\* C7 witness: an encoded value whose second unit has a non-zero index, so
\* that the two weightings differ.
C7_Witness ==
    /\ Code128Encoded /\ Len(res.val) >= 3
    /\ res.val[2].n % 103 # 0

\* The input carries an explicit trailing check digit.
ExplicitLen == [s \in {"EAN13", "EAN8", "UPCA"} |->
                  CASE s = "EAN13" -> 13 [] s = "EAN8" -> 8 [] OTHER -> 12]

HasCheckDigit ==
    sym \in DOMAIN ExplicitLen /\ Len(data) = ExplicitLen[sym] /\ AllDigits(data)

\* The modulo-10 check digit of the digits ds: weight 3 at the odd 0-based
\* indices for EAN-13, at the even ones for EAN-8 and UPC-A.
CheckDigit(s, ds) ==
    LET ws == IF s = "EAN13" THEN 3 * SumAt(ds, 1) + SumAt(ds, 0)
                             ELSE 3 * SumAt(ds, 0) + SumAt(ds, 1)
    IN  (10 - (ws % 10)) % 10

Front(s) == SubSeq(s, 1, Len(s) - 1)

TrailingDigitCorrect ==
    data[Len(data)] - 48 = CheckDigit(sym, ToDigits(Front(data)))

\* C8: for EAN-13 (13 digits), EAN-8 (8 digits) and UPC-A (12 digits) the
\* constructor returns Err(Error::Checksum) whenever the trailing digit differs
\* from the checksum computed over the preceding digits.
C8_WrongCheckDigitIsChecksumError ==
    (Constructed /\ HasCheckDigit /\ ~TrailingDigitCorrect) => res = Err("Checksum")

\* encode() of the value constructed from the data digits alone.
EncodeWithoutCheckDigit ==
    CASE sym = "EAN13" -> EAN13_encode(EAN13_new(Front(data)).val)
      [] sym = "EAN8"  -> EAN8_encode(EAN8_new(Front(data)).val)
      [] sym = "UPCA"  -> UPCA_encode(UPCA_new(Front(data)).val)

C10_ChecksumDigitFormula ==
    (Constructed /\ res.ok /\ sym \in {"EAN13", "EAN8"}) =>
        LET c == IF sym = "EAN13" THEN EAN13_checksum_digit(res.val)
                                  ELSE EAN8_checksum_digit(res.val)
        IN  c = CheckDigit(sym, res.val) /\ c \in 0..9

\* C11: encode() returns exactly 95 modules for every successfully constructed
\* EAN13 / UPCA value and exactly 67 modules for every successfully constructed
\* EAN8 value, for every input length the constructor accepts.
C11_EncodeLengths ==
    (pc = "encoded" /\ ~out.panic) =>
        /\ sym \in {"EAN13", "UPCA"} => Len(out.bits) = 95
        /\ sym = "EAN8" => Len(out.bits) = 67

\* The pattern of the digit d in table A (1), table B (2) or the right table (3).
DigitPattern(table, d) == EAN13_ENCODINGS[table][d + 1]

\* The layout C12 gives for the twelve digits v = d0..d11.
EAN13Layout(v) ==
    <<1, 0, 1>>
    \o DigitPattern(1, v[2])
    \o Flatten([k \in 1..5 |->
          DigitPattern(IF EAN13_PARITY[v[1] + 1][k] = 0 THEN 1 ELSE 2, v[2 + k])])
    \o <<0, 1, 0, 1, 0>>
    \o Flatten([k \in 1..5 |-> DigitPattern(3, v[7 + k])])
    \o DigitPattern(3, CheckDigit("EAN13", v))
    \o <<1, 0, 1>>

\* C12: EAN13::encode of twelve digits d0..d11 equals: left guard 101; the
\* table-A pattern of d1; for k = 0..4 the pattern of d(2+k) from table A when
\* PARITY[d0][k] = 0 and from table B when it is 1; middle guard 01010; the
\* right-table patterns of d7..d11; the right-table pattern of the checksum
\* digit; right guard 101.
C12_EAN13EncodeLayout ==
    (pc = "encoded" /\ sym = "EAN13" /\ Len(data) = 12) =>
        out = Bits(EAN13Layout(ToDigits(data)))

\* The layout of C12 whenever encode() returns.
EAN13LayoutWhenReturned ==
    (pc = "encoded" /\ sym = "EAN13" /\ Len(data) = 12 /\ ~out.panic) =>
        out = Bits(EAN13Layout(ToDigits(data)))

\* An input of the same length as d that repeats the first byte of d.
Repeated(d) == [i \in 1..Len(d) |-> d[1]]

\* encode() of the value the constructor of sym returns for the input d (with
\* the checksum flag of the current value for Code39); a panic if the
\* constructor rejects d.
EncodeOfInput(d) ==
    CASE sym = "Code39"  -> Code39_encode([checksum |-> res.val.checksum, data |-> d])
      [] sym = "Code93"  -> Code93_encode(d)
      [] sym = "Code11"  -> Code11_encode(d)
      [] sym = "Codabar" -> Codabar_encode(d)
      [] sym = "EAN2"    -> IF EAN2_new(d).ok THEN EAN2_encode(EAN2_new(d).val) ELSE Panic
      [] sym = "EAN13"   -> IF EAN13_new(d).ok THEN EAN13_encode(EAN13_new(d).val) ELSE Panic
      [] sym = "EAN8"    -> IF EAN8_new(d).ok THEN EAN8_encode(EAN8_new(d).val) ELSE Panic
      [] sym = "UPCA"    -> IF UPCA_new(d).ok THEN UPCA_encode(UPCA_new(d).val) ELSE Panic
      [] OTHER           -> Panic

FixedWidthLength(n) ==
    CASE sym = "Code39" -> 13 * n + (IF res.val.checksum THEN 38 ELSE 25)
      [] sym = "Code93" -> 9 * n + 37
      [] sym = "EAN13"  -> 95 + 7 * (n - 12)
      [] sym = "EAN8"   -> 67 + 7 * (n - 7)
      [] sym = "UPCA"   -> 95
      [] sym = "EAN2"   -> 20
      [] sym = "EAN5"   -> 47

EncodeOutcomes ==
    CASE sym = "Code39"  -> {Code39_encode(res.val)}
      [] sym = "Code93"  -> {Code93_encode(res.val)}
      [] sym = "Code11"  -> {Code11_encode(res.val)}
      [] sym = "Codabar" -> {Codabar_encode(res.val)}
      [] sym = "EAN2"    -> {EAN2_encode(res.val)}
      [] sym = "EAN5"    -> EAN5_encode(res.val)

InPlaceSymbologies == {"Code39", "Code93", "Code11", "Codabar", "EAN2", "EAN5"}

\* C14: for Code39, Code93, Code11, Codabar, EAN2 and EAN5, encode_in_place
\* returns None if and only if the buffer is shorter than the length of
\* encode() for the same value: a buffer of exactly that length (or longer)
\* gives Some(()), a shorter one gives None.
C14_InPlaceNoneIffShort ==
    (pc = "encoded_in_place" /\ sym \in InPlaceSymbologies) =>
        \A e \in EncodeOutcomes :
            /\ ~e.panic
            /\ Len(buf) < Len(e.bits) => inplace.ret = "None"
            /\ Len(buf) >= Len(e.bits) => inplace.ret = "Some"

\* C15: encode_in_place modifies only buffer positions below the required
\* output length (the length of encode() for the value): when it returns None
\* the buffer is unchanged, and when it returns Some(()) on a longer buffer,
\* every element at or beyond the required length keeps its previous value.
C15_InPlaceFrame ==
    (pc = "encoded_in_place" /\ sym \in InPlaceSymbologies) =>
        \A e \in EncodeOutcomes :
            ~e.panic =>
                /\ inplace.ret = "None" => inplace.buffer = buf
                /\ inplace.ret = "Some" =>
                      \A i \in (Len(e.bits) + 1)..Len(buf) : inplace.buffer[i] = buf[i]

\* The pattern width the layout of C16 gives to each Codabar character.
CodabarLayoutWidth(c) ==
    IF IsDigit(c) \/ c \in {45, 36} THEN 9
    ELSE IF c \in {58, 47, 46, 65, 66, 67, 68} THEN 10
    ELSE 11

\* The per-character patterns of d in order with one 0 module between
\* consecutive characters and nothing after the last one: a 0 before every
\* pattern but the first.
CodabarLayout(d) ==
    Tail(Flatten([i \in 1..Len(d) |-> <<0>> \o Codabar_ENCODINGS[d[i]]]))

\* C16: Codabar::encode returns the per-character patterns of the data in
\* order (9 modules for digits, '-' and '$'; 10 for ':', '/', '.', 'A'..'D';
\* 11 for '+') with exactly one 0 module between consecutive characters and no
\* module after the last pattern, so that its length is the sum of the pattern
\* widths plus n - 1 for n characters.
C16_CodabarEncodeLayout ==
    (pc = "encoded" /\ sym = "Codabar") =>
        /\ \A i \in 1..Len(data) :
               Len(Codabar_ENCODINGS[data[i]]) = CodabarLayoutWidth(data[i])
        /\ out = Bits(CodabarLayout(data))
        /\ Len(out.bits) = SumSeq([i \in 1..Len(data) |-> CodabarLayoutWidth(data[i])])
                           + (Len(data) - 1)

\* The 12-module pattern of the Code39 character with table index id (0-based).
Code39Pattern(id) == Code39_CHAR_TABLE[id + 1][2]

\* The table index (0-based) of the Code39 character c.
Code39Id(c) == (CHOOSE k \in 1..Len(Code39_CHAR_TABLE) : Code39_CHAR_TABLE[k][1] = c) - 1

\* The layout of C17: guard, 0, each character's pattern and a 0, with the
\* flag the checksum character's pattern and a 0, guard.
Code39Layout(d, checksum) ==
    <<1, 0, 0, 1, 0, 1, 1, 0, 1, 1, 0, 1>> \o <<0>>
    \o Flatten([i \in 1..Len(d) |-> Code39Pattern(Code39Id(d[i])) \o <<0>>])
    \o (IF checksum
        THEN Code39Pattern(SumSeq([i \in 1..Len(d) |-> Code39Id(d[i])]) % 43) \o <<0>>
        ELSE <<>>)
    \o <<1, 0, 0, 1, 0, 1, 1, 0, 1, 1, 0, 1>>

\* C17: Code39::encode equals guard 100101101101, one 0 module, each data
\* character's 12-module pattern followed by one 0 module, then (only when the
\* checksum flag is set) the checksum character's pattern followed by one 0
\* module, then the guard again; its length is 13n + 25 without checksum and
\* 13n + 38 with checksum for n data characters.
C17_Code39EncodeLayout ==
    (pc = "encoded" /\ sym = "Code39") =>
        /\ out = Bits(Code39Layout(res.val.data, res.val.checksum))
        /\ \A k \in 1..Len(Code39_CHAR_TABLE) : Len(Code39_CHAR_TABLE[k][2]) = 12
        /\ Len(out.bits) = 13 * Len(data) + (IF res.val.checksum THEN 38 ELSE 25)

\* Code39 data of several characters was encoded with the checksum flag set.
C17_Witness ==
    /\ pc = "encoded" /\ sym = "Code39"
    /\ res.val.checksum /\ Len(data) >= 3
    /\ Len(out.bits) = 13 * Len(data) + 38

\* The table index (0-based) of the Code93 character c.
Code93Id(c) == (CHOOSE k \in 1..Len(Code93_CHAR_TABLE) : Code93_CHAR_TABLE[k][1] = c) - 1

\* w_t(x) = x mod t with a zero result replaced by t.
Code93W(t, x) == IF x % t = 0 THEN t ELSE x % t

\* C = CHARS[(sum over i of w20(n - i) * id(data[i])) mod 47], i counted from 0.
Code93C(d) ==
    LET n == Len(d)
    IN  Code93_CHAR_TABLE[(SumSeq([j \in 1..n |->
            Code93W(20, n - (j - 1)) * Code93Id(d[j])]) % 47) + 1][1]

\* K = CHARS[(sum over i of w15(n + 1 - i) * id(data[i]) + 1 * id(C)) mod 47].
Code93K(d) ==
    LET n == Len(d)
    IN  Code93_CHAR_TABLE[((SumSeq([j \in 1..n |->
            Code93W(15, n + 1 - (j - 1)) * Code93Id(d[j])])
            + 1 * Code93Id(Code93C(d))) % 47) + 1][1]

\* C18: Code93 always appends two checksum characters after the data:
\* C = CHARS[(sum over i of w20(n - i) * id(data[i])) mod 47] and
\* K = CHARS[(sum over i of w15(n + 1 - i) * id(data[i]) + 1 * id(C)) mod 47],
\* with n the data length, i the 0-based index from the left, id the table
\* index and w_t(x) = x mod t, a zero result replaced by t.
C18_Code93Checksums ==
    (pc = "encoded" /\ sym = "Code93") =>
        LET n == Len(data)
        IN  /\ ~out.panic
            /\ Len(out.bits) = 9 * n + 37
            /\ SubSeq(out.bits, 9 * n + 10, 9 * n + 18)
                   = Code93_CHAR_TABLE[Code93Id(Code93C(data)) + 1][2]
            /\ SubSeq(out.bits, 9 * n + 19, 9 * n + 27)
                   = Code93_CHAR_TABLE[Code93Id(Code93K(data)) + 1][2]

\* Code93 data long enough for both weight cycles to wrap was encoded.
C18_Witness ==
    /\ pc = "encoded" /\ sym = "Code93" /\ ~out.panic
    /\ Len(data) > 20
    /\ \E j \in 1..(Len(data) - 20) : Code93Id(data[j]) > 0

\* The Code11 pattern of the byte c followed by the separator module.
Code11Char(c) == Code11_ENCODINGS[c] \o <<0>>

\* Start guard, separator, and every data character with its separator.
Code11Head(d) ==
    <<1, 0, 1, 1, 0, 0, 1>> \o <<0>> \o Flatten([i \in 1..Len(d) |-> Code11Char(d[i])])

\* C19: Code11::encode always contains the C checksum character after the
\* data, and contains the K checksum character after C if and only if the data
\* length is greater than 10 (10-character data has C only, 11-character data
\* has C and K).
C19_Code11ChecksumPresence ==
    (pc = "encoded" /\ sym = "Code11") =>
        LET c == Code11_calc_c_checksum(data)
            k == Code11_calc_k_checksum(data, c)
        IN  /\ ~out.panic
            /\ Len(data) <= 10 =>
                   out.bits = Code11Head(data) \o Code11Char(c) \o <<1, 0, 1, 1, 0, 0, 1>>
            /\ Len(data) > 10 =>
                   out.bits = Code11Head(data) \o Code11Char(c) \o Code11Char(k)
                              \o <<1, 0, 1, 1, 0, 0, 1>>

\* Code11 data of exactly 11 characters was encoded.
C19_Witness ==
    /\ pc = "encoded" /\ sym = "Code11" /\ ~out.panic
    /\ Len(data) = 11
    /\ Len(out.bits) > Len(Code11Head(data)) + 7 + 7

\* The weighted sum of C20: the values of the data characters and of C with
\* weights cycling 1..9 counted from the right, C being the rightmost element
\* with weight 1.
Code11KSum(d, c) ==
    LET all == d \o <<c>>
        m   == Len(all)
    IN  SumSeq([j \in 1..m |-> (((m - j) % 9) + 1) * Code11_char_lookup(all[j])])

\* The Code11 character of the value v: the digit, '-' for 10.
Code11CharOfValue(v) == IF v = 10 THEN 45 ELSE v + 48

\* encode() of data longer than 10 characters carries the K character k.
Code11EncodedK(k) ==
    LET c == Code11_calc_c_checksum(data)
    IN  out = Bits(Code11Head(data) \o Code11Char(c) \o Code11Char(k)
                   \o <<1, 0, 1, 1, 0, 0, 1>>)

\* C20 as stated: the Code11 K checksum is the weighted sum over the data
\* characters plus the just-computed C character (weights cycling 1..9 from
\* the right, C rightmost with weight 1), reduced modulo 9.
C20_Original ==
    (pc = "encoded" /\ sym = "Code11" /\ Len(data) > 10) =>
        Code11EncodedK(Code11CharOfValue(
            Code11KSum(data, Code11_calc_c_checksum(data)) % 9))

\* C20: the Code11 K checksum is the weighted sum over the data characters
\* plus the just-computed C character (weights cycling 1..9 from the right, C
\* rightmost with weight 1), reduced modulo 11, a result of 10 being the
\* character '-'.
C20_Code11KChecksum ==
    (pc = "encoded" /\ sym = "Code11" /\ Len(data) > 10) =>
        Code11EncodedK(Code11CharOfValue(
            Code11KSum(data, Code11_calc_c_checksum(data)) % 11))

\* Code11 data with a K checksum was encoded, long enough for the weights to
\* wrap, where reducing modulo 9 and modulo 11 give different characters.
C20_Witness ==
    /\ pc = "encoded" /\ sym = "Code11" /\ ~out.panic
    /\ Len(data) > 10
    /\ LET s == Code11KSum(data, Code11_calc_c_checksum(data))
       IN  s % 9 # s % 11

\* C21: every value built by TF::interleaved (and I2OF5::new) holds an even
\* number of digits: even-length input is stored unchanged, odd-length input
\* is stored with exactly one extra trailing digit equal to
\* modulo_10_checksum(input digits, false), so that the digit pairing of the
\* payload never meets a lone digit.
C21_InterleavedEvenDigits ==
    (Constructed /\ sym \in {"TF", "I2OF5"} /\ res.ok) =>
        LET digits == ToDigits(data)
        IN  /\ Len(res.val) % 2 = 0
            /\ Len(data) % 2 = 0 => res.val = digits
            /\ Len(data) % 2 = 1 =>
                   res.val = digits \o <<modulo_10_checksum(digits, FALSE).v>>
            /\ ~TF_itf_payload(res.val).panic
            /\ pc = "encoded" => ~out.panic /\ Len(out.bits) = 9 * Len(res.val) + 8

\* An odd number of digits was given to TF::interleaved and the value encoded.
C21_Witness ==
    /\ pc = "encoded" /\ sym = "TF" /\ res.ok
    /\ Len(data) % 2 = 1 /\ Len(data) > 1
    /\ Len(res.val) = Len(data) + 1
    /\ ~out.panic

\* A step of parse on a set-switch character that is not the first character
\* and meets no pending digit appends exactly one unit, looked up in and tagged
\* with the set active before it, and changes the active set to the selected
\* one.
SwitchStep ==
    LET ch == data[idx]
        u  == units'[Len(units')]
    IN  /\ Len(units') = Len(units) + 1
        /\ SubSeq(units', 1, Len(units)) = units
        /\ u.set = char_set
        /\ Code128_CHARS[u.n + 1][1][CharacterSet_index(char_set).p + 1] = <<ch>>
        /\ char_set' = CharacterSet_from_char(ch).set

\* A step of parse on any other character that appends a unit tags it with the
\* active set and leaves the active set as it is.
TaggedStep ==
    (units' # units /\ data[idx] \notin SwitchChars) =>
        /\ units'[Len(units')].set = char_set
        /\ char_set' = char_set

\* C22 as stated: every set-switch character that is not the first character
\* and arrives with no digit pending appends exactly one unit of the previous
\* set and only then changes the active set; every unit appended afterwards is
\* tagged with the new set until the next switch.
C22_Original ==
    [][(pc = "parsing" /\ idx <= Len(data)) =>
          /\ (idx > 1 /\ data[idx] \in SwitchChars /\ carry = <<>>) => SwitchStep
          /\ TaggedStep]_vars

\* C22: a set-switch character that is not the first character, arrives with
\* no digit pending and selects another set than the active one appends
\* exactly one unit, looked up in and tagged with the set that was active
\* before it, and only then changes the active set; every unit appended
\* afterwards is tagged with the new set until the next switch.
C22_SwitchUnitInPreviousSet ==
    [][(pc = "parsing" /\ idx <= Len(data)) =>
          /\ (/\ idx > 1 /\ data[idx] \in SwitchChars /\ carry = <<>>
              /\ CharacterSet_from_char(data[idx]).set # char_set) => SwitchStep
          /\ TaggedStep]_vars

\* A switch from one set to another was parsed and a unit of the new set
\* followed it.
C22_Witness ==
    /\ sym = "Code128" /\ Len(units) >= 4
    /\ units[2].set = "B" /\ units[3] = [set |-> "B", n |-> 101]
    /\ units[4].set = "A"

\* C23: while Code128::parse runs, a pending carry exists only while the
\* active set is C, and a parse that returned Ok left no carry behind.
C23_CarryOnlyInSetC ==
    sym = "Code128" =>
        /\ (pc = "parsing" /\ carry # <<>>) => char_set = "C"
        /\ (Constructed /\ res.ok) => carry = <<>>

\* A parse that paired two digits in set C, with a carry pending between
\* them, has returned Ok.
C23_Witness ==
    /\ sym = "Code128" /\ Constructed /\ res.ok
    /\ \E i \in 1..Len(units) : units[i].set = "C" /\ units[i].n < 100

\* The input characters the i-th unit of us stands for: the text of its row
\* of CHARS in the column of its set, less the "START-" of a start unit.
UnitText(us, i) ==
    LET s == Code128_CHARS[us[i].n + 1][1][CharacterSet_index(us[i].set).p + 1]
    IN  IF i = 1 THEN SubSeq(s, Len(StartPrefix) + 1, Len(s)) ELSE s

\* C24: the units of a parsed Code128 value stand, read left to right, for
\* the input characters in their input order: the two digits of a set-C unit
\* are adjacent in the input and no unit of a later character precedes a unit
\* holding an earlier digit, so the units' texts concatenated are the input.
C24_UnitsInInputOrder ==
    (sym = "Code128" /\ Constructed /\ res.ok) =>
        Flatten([i \in 1..Len(res.val) |-> UnitText(res.val, i)]) = data

\* C25: when Code128 parsing reaches, after the first character, a set-switch
\* character that selects the set already active, Code128::new returns
\* Err(Error::Character) at that character.
C25_SameSetSwitchRejected ==
    [][(/\ pc = "parsing" /\ idx <= Len(data) /\ idx > 1
        /\ data[idx] \in SwitchChars
        /\ CharacterSet_from_char(data[idx]).set = char_set)
       => (pc' = "constructed" /\ res' = Err("Character"))]_vars

\* Code128::new has returned Err(Error::Character) at a switch character, not
\* the first and with no digit pending, that selects the active set.
C25_Witness ==
    /\ sym = "Code128" /\ pc = "constructed" /\ res = Err("Character")
    /\ StrLen(data) >= 2 /\ idx > 1 /\ idx <= Len(data)
    /\ data[idx] \in SwitchChars /\ carry = <<>>
    /\ CharacterSet_from_char(data[idx]).set = char_set

\* C26: every constructed Code128 value holds the start unit followed by at
\* least one further unit, and an input that is a lone set-switch character
\* is rejected with Error::Length.
C26_StartUnitPlusData ==
    (sym = "Code128" /\ Constructed) =>
        /\ res.ok => (Len(res.val) >= 2 /\ res.val[1].n \in 103..105)
        /\ (Len(data) = 1 /\ data[1] \in SwitchChars) => res = Err("Length")

\* C27: the Code128 table gives the indices 0..105 pairwise distinct
\* 11-module patterns, none of them STOP: the 11 modules that encode emits
\* for a unit are the pattern of no other index of the table and are not the
\* STOP pattern.
C27_PatternsDistinct ==
    (sym = "Code128" /\ pc = "encoded" /\ res.ok /\ ~out.panic) =>
        \A i \in 1..Len(res.val) :
            LET modules == SubSeq(out.bits, 11 * (i - 1) + 1, 11 * i)
            IN  /\ modules = Code128_CHARS[res.val[i].n + 1][2]
                /\ modules # STOP
                /\ \A k \in 0..105 :
                     k # res.val[i].n => Code128_CHARS[k + 1][2] # modules

\* C28: for every constructed Code39, Code93, Code11, Codabar, EAN2 and EAN5
\* value, encode_in_place into a buffer of exactly encode().len() elements
\* returns Some and leaves the buffer equal to encode(), whatever the buffer
\* held before.
C28_InPlaceEqualsEncode ==
    (pc = "encoded_in_place" /\ sym \in InPlaceSymbologies) =>
        \A e \in EncodeOutcomes :
            /\ ~e.panic
            /\ Len(buf) = Len(e.bits) =>
                  (inplace.ret = "Some" /\ inplace.buffer = e.bits)

\* (10 - ((3*A + B) mod 10)) mod 10 over the integers, A the sum at the odd
\* 0-based indices and B at the even ones when even_start holds, swapped
\* when it does not.
Mod10Formula(d, even_start) ==
    LET odds  == SumAt(d, 1)
        evens == SumAt(d, 0)
        A == IF even_start THEN odds ELSE evens
        B == IF even_start THEN evens ELSE odds
    IN  (10 - ((3 * A + B) % 10)) % 10

\* C29: for every digit sequence of 1 to 255 digits that a 2-of-5 constructor
\* passes to modulo_10_checksum (an input of odd length, with even_start
\* false), the constructor returns, the 8-bit accumulators stay within 255,
\* and the check digit appended is the value of the formula.
C29_Mod10Checksum ==
    (/\ Constructed /\ sym \in {"TF", "I2OF5"}
     /\ Len(data) \in 1..255 /\ Len(data) % 2 = 1
     /\ \A i \in 1..Len(data) : data[i] \in DigitChars) =>
        LET digits == ToDigits(data)
        IN  /\ res.ok
            /\ ~modulo_10_checksum(digits, FALSE).overflow
            /\ res.val[Len(res.val)] = Mod10Formula(digits, FALSE)

\* The buffer length the implementor's encode_in_place requires.
RequiredLen(name, v) ==
    CASE name = "Code39"  -> Code39_calc_sum(v)
      [] name = "Code93"  -> Code93_calc_sum(v)
      [] name = "Code11"  -> Code11_calc_sum_and_checksums(v).sum
      [] name = "Codabar" -> Codabar_get_sum(v).sum
      [] name = "EAN2"    -> 20
      [] name = "EAN5"    -> 47

\* C30: for an implementor that leaves encode to the trait, the provided
\* encode() returns the modules that the implementor's encode_in_place writes
\* into a buffer of the required length: a sequence of that non-zero length.
C30_ProvidedEncode ==
    pc = "encoded_provided" =>
        LET n == RequiredLen(sym, res.val)
        IN  /\ n > 0
            /\ ~out.panic
            /\ Len(out.bits) = n
            /\ \A r \in Barcode_encode_in_place(sym, res.val, [i \in 1..n |-> 0]) :
                   r.ret = "Some" => out.bits = r.buffer

====
